---- MODULE Spec2Model ----
(***************************************************************************)
(* Planner state engine of FoodPlanner (web/src/store/usePlannerStore.ts). *)
(*                                                                         *)
(* Every JavaScript number of the store (ingredient count, ref qty,        *)
(* servings, servingsPerCount) is held as an integer number of hundredths: *)
(* 4 is 400, 0.01 is 1.  An intermediate quotient is an exact fraction     *)
(* [n, d] of hundredths, and Math.round is applied where the code applies  *)
(* it.  Strings that the code normalises are looked up in NameChars, which *)
(* gives their characters.  createId() is the counter nextId.              *)
(***************************************************************************)
EXTENDS Integers, Sequences, FiniteSets, TLC

\* store:  the state of usePlannerStore (ingredients, meals, profiles, customCategories,
\*         pinnedMealIds, weekPlans, currentWeekStartDate, inventorySort, past, future)
\*         and nextId, the generator behind createId
\* steps:  the number of commands issued so far
\* lastOp: the last command issued, with its arguments
VARIABLES store, steps, lastOp

\* ------------------------------------------------------------------------
\* Bounds of the model
\* ------------------------------------------------------------------------
MaxSteps == 2
MaxDrops == 3
\* the largest number of servings a slot is rescaled to and back
MaxServings == 4
\* the largest number of undos taken back by as many redos
MaxUndos == 3

\* ------------------------------------------------------------------------
\* Values of the program
\* ------------------------------------------------------------------------
\* null (and an absent object): the empty tuple, which TLC can compare with a record.
NULL == <<>>
UNDEF == "undefined"
\* An optional number that is absent (undefined); outside every number the model uses.
NoNumber == 0 - 1000000
BoolT == "true"
BoolF == "false"

\* Math.round(value * 100) / 100 keeps two decimals: one unit is 100 hundredths.
Unit == 100

HISTORY_LIMIT == 100

MEAL_TYPES == {"breakfast", "lunch", "dinner", "snack"}
CATEGORIES == {"Protein", "Dairy", "Produce", "Pantry", "Other"}
Days == 0..6

Max(a, b) == IF a >= b THEN a ELSE b
Min(a, b) == IF a <= b THEN a ELSE b
Abs(a) == IF a < 0 THEN -a ELSE a

\* A fraction n/d of hundredths, d > 0.
Frac(n, d) == [n |-> n, d |-> d]
FracAdd(a, b) == Frac(a.n * b.d + b.n * a.d, a.d * b.d)
FracNeg(a) == Frac(-a.n, a.d)
FracMax0(a) == IF a.n < 0 THEN Frac(0, 1) ELSE a
FracPos(a) == a.n > 0

\* Math.round: the nearest integer, a tie going up (floor(x + 1/2)).
MathRound(a) == (2 * a.n + a.d) \div (2 * a.d)

\* Math.floor of a number of hundredths, as a whole number.
MathFloor(h) == h \div Unit

\* ------------------------------------------------------------------------
\* Names and normalizeName
\* ------------------------------------------------------------------------
NameChars ==
  ("chicken" :> <<"c","h","i","c","k","e","n">>) @@
  ("rice"    :> <<"r","i","c","e">>) @@
  ("Rice"    :> <<"R","i","c","e">>) @@
  ("Egg"     :> <<"E","g","g">>) @@
  ("eggs"    :> <<"e","g","g","s">>) @@
  (" EGG"    :> <<" ","E","G","G">>) @@
  ("egg!"    :> <<"e","g","g","!">>) @@
  ("penne"   :> <<"p","e","n","n","e">>) @@
  ("chicken breast" :> <<"c","h","i","c","k","e","n"," ","b","r","e","a","s","t">>) @@
  ("tofu"    :> <<"t","o","f","u">>) @@
  ("Bowl"    :> <<"B","o","w","l">>) @@
  ("Protein" :> <<"P","r","o","t","e","i","n">>) @@
  ("Dairy"   :> <<"D","a","i","r","y">>) @@
  ("Produce" :> <<"P","r","o","d","u","c","e">>) @@
  ("Pantry"  :> <<"P","a","n","t","r","y">>) @@
  ("Other"   :> <<"O","t","h","e","r">>) @@
  ("Frozen"  :> <<"F","r","o","z","e","n">>) @@
  ("dairy "  :> <<"d","a","i","r","y"," ">>) @@
  ("dairy"   :> <<"d","a","i","r","y">>) @@
  ("Dana"    :> <<"D","a","n","a">>) @@
  (" "       :> <<" ">>) @@
  (""        :> <<>>)

LowerOf ==
  ("A" :> "a") @@ ("B" :> "b") @@ ("C" :> "c") @@ ("D" :> "d") @@ ("E" :> "e") @@
  ("F" :> "f") @@ ("G" :> "g") @@ ("H" :> "h") @@ ("I" :> "i") @@ ("J" :> "j") @@
  ("K" :> "k") @@ ("L" :> "l") @@ ("M" :> "m") @@ ("N" :> "n") @@ ("O" :> "o") @@
  ("P" :> "p") @@ ("Q" :> "q") @@ ("R" :> "r") @@ ("S" :> "s") @@ ("T" :> "t") @@
  ("U" :> "u") @@ ("V" :> "v") @@ ("W" :> "w") @@ ("X" :> "x") @@ ("Y" :> "y") @@
  ("Z" :> "z")

toLowerCase(cs) == [i \in 1..Len(cs) |-> IF cs[i] \in DOMAIN LowerOf THEN LowerOf[cs[i]] ELSE cs[i]]

IsSpace(c) == c \in {" ", "\t", "\n"}

RECURSIVE trimStart(_)
trimStart(cs) == IF cs # <<>> /\ IsSpace(Head(cs)) THEN trimStart(Tail(cs)) ELSE cs

RECURSIVE trimEnd(_)
trimEnd(cs) ==
  IF cs # <<>> /\ IsSpace(cs[Len(cs)]) THEN trimEnd(SubSeq(cs, 1, Len(cs) - 1)) ELSE cs

trim(cs) == trimEnd(trimStart(cs))

IsAlnum(c) ==
  c \in {"a","b","c","d","e","f","g","h","i","j","k","l","m","n","o","p","q","r","s",
         "t","u","v","w","x","y","z","0","1","2","3","4","5","6","7","8","9"}

\* replace(/[^a-z0-9]+/g, ' '): every maximal run of other characters becomes one space.
RECURSIVE collapseNonAlnum(_, _)
collapseNonAlnum(cs, inRun) ==
  IF cs = <<>> THEN <<>>
  ELSE IF IsAlnum(Head(cs)) THEN <<Head(cs)>> \o collapseNonAlnum(Tail(cs), FALSE)
  ELSE IF inRun THEN collapseNonAlnum(Tail(cs), TRUE)
  ELSE <<" ">> \o collapseNonAlnum(Tail(cs), TRUE)

\* normalizeName without its trim()
normalizeCharsUntrimmed(cs) == collapseNonAlnum(toLowerCase(cs), FALSE)

normalizeChars(cs) == collapseNonAlnum(trim(toLowerCase(cs)), FALSE)

normalizeName(name) == normalizeChars(NameChars[name])

\* ------------------------------------------------------------------------
\* Numeric helpers of the store
\* ------------------------------------------------------------------------
\* JavaScript truthiness of an optional string and of an optional number.
Truthy(v) == v # UNDEF /\ v # ""
TruthyNum(v) == v # NoNumber /\ v # 0

\* a ?? b and a || b on optional numbers.
Nullish(a, b) == IF a = NoNumber THEN b ELSE a
OrElse(a, b) == IF TruthyNum(a) THEN a ELSE b

normalizeServingsPerCount(value) == IF ~TruthyNum(value) THEN Unit ELSE Max(1, value)

\* servingsQty / normalizeServingsPerCount(servingsPerCount), in hundredths.
servingsToCountDelta(servingsQty, servingsPerCount) ==
  Frac(Unit * servingsQty, normalizeServingsPerCount(servingsPerCount))

roundCount(value) == MathRound(value)

\* ------------------------------------------------------------------------
\* Slots, cells and plans
\* ------------------------------------------------------------------------
Slot(mealId, adHocMealName, refs, servings, notes, isLeftovers) ==
  [mealId |-> mealId, adHocMealName |-> adHocMealName, ingredientRefs |-> refs,
   servings |-> servings, notes |-> notes, isLeftovers |-> isLeftovers]

Ref(ingredientId, name, qty) == [ingredientId |-> ingredientId, name |-> name, qty |-> qty]

defaultSlotEntry == Slot(UNDEF, UNDEF, <<>>, 2 * Unit, UNDEF, UNDEF)

EmptyCell == [family |-> NULL, profiles |-> <<>>]

createEmptyWeekPlan(weekStartDate) ==
  [weekStartDate |-> weekStartDate, grid |-> [mt \in MEAL_TYPES |-> [d \in Days |-> NULL]]]

Address(mealType, day, targetType, profileId) ==
  [mealType |-> mealType, day |-> day, targetType |-> targetType, profileId |-> profileId]

refKey(ref) ==
  IF Truthy(ref.ingredientId) THEN <<"id", ref.ingredientId>> ELSE <<"name", normalizeName(ref.name)>>

\* The first index whose item satisfies Test, or 0 (the code's -1).
findIndex(list, Test(_)) ==
  LET hits == {i \in 1..Len(list) : Test(list[i])}
  IN IF hits = {} THEN 0 ELSE CHOOSE i \in hits : \A j \in hits : i <= j

\* addIngredientRef that always appends, never merging into the ref with the same key
addIngredientRefAppending(list, incoming) == Append(list, incoming)

addIngredientRef(list, incoming) ==
  LET key == refKey(incoming)
      SameKey(item) == refKey(item) = key
      index == findIndex(list, SameKey)
  IN IF index > 0
       THEN [list EXCEPT ![index] = [@ EXCEPT !.qty = @ + incoming.qty]]
       ELSE Append(list, incoming)

\* scaleIngredientRefs that rounds to whole serving units
scaleIngredientRefsWhole(list, ratio) ==
  [i \in 1..Len(list) |->
     [list[i] EXCEPT !.qty =
        Max(1, Unit * MathRound(Frac(list[i].qty * ratio.n, ratio.d * Unit)))]]

scaleIngredientRefs(list, ratio) ==
  [i \in 1..Len(list) |->
     [list[i] EXCEPT !.qty = Max(1, MathRound(Frac(list[i].qty * ratio.n, ratio.d)))]]

getCell(plan, address) ==
  IF address.day \in DOMAIN plan.grid[address.mealType]
    THEN plan.grid[address.mealType][address.day]
    ELSE NULL

slotKey(address) ==
  IF address.targetType = "family" THEN "family"
  ELSE IF address.profileId = UNDEF THEN "" ELSE address.profileId

getSlot(plan, address) ==
  LET cell == getCell(plan, address) IN
  IF cell = NULL THEN NULL
  ELSE IF address.targetType = "family" THEN cell.family
  ELSE IF ~Truthy(address.profileId) THEN NULL
  ELSE IF address.profileId \in DOMAIN cell.profiles THEN cell.profiles[address.profileId]
  ELSE NULL

\* setSlot that leaves the written slot alone in its cell
setSlotAlone(plan, address, value) ==
  LET nextCell ==
        IF address.targetType = "family"
          THEN [EmptyCell EXCEPT !.family = value]
        ELSE IF Truthy(address.profileId)
          THEN [EmptyCell EXCEPT !.profiles = (address.profileId :> value)]
        ELSE EmptyCell
      hasAnyProfile == \E k \in DOMAIN nextCell.profiles : nextCell.profiles[k] # NULL
      hasAny == nextCell.family # NULL \/ hasAnyProfile
  IN [plan EXCEPT !.grid[address.mealType][address.day] = IF hasAny THEN nextCell ELSE NULL]

\* setSlot that stores the cell even when no slot of it is populated
setSlotKeepEmpty(plan, address, value) ==
  LET cell == getCell(plan, address)
      existing == IF cell = NULL THEN EmptyCell ELSE cell
      nextCell ==
        IF address.targetType = "family"
          THEN [existing EXCEPT !.family = value]
        ELSE IF Truthy(address.profileId)
          THEN [existing EXCEPT !.profiles =
                  [k \in DOMAIN existing.profiles \cup {address.profileId} |->
                     IF k = address.profileId THEN value ELSE existing.profiles[k]]]
        ELSE existing
  IN [plan EXCEPT !.grid[address.mealType][address.day] = nextCell]

setSlot(plan, address, value) ==
  LET cell == getCell(plan, address)
      existing == IF cell = NULL THEN EmptyCell ELSE cell
      nextCell ==
        IF address.targetType = "family"
          THEN [existing EXCEPT !.family = value]
        ELSE IF Truthy(address.profileId)
          THEN [existing EXCEPT !.profiles =
                  [k \in DOMAIN existing.profiles \cup {address.profileId} |->
                     IF k = address.profileId THEN value ELSE existing.profiles[k]]]
        ELSE existing
      hasAnyProfile == \E k \in DOMAIN nextCell.profiles : nextCell.profiles[k] # NULL
      hasAny == nextCell.family # NULL \/ hasAnyProfile
  IN [plan EXCEPT !.grid[address.mealType][address.day] = IF hasAny THEN nextCell ELSE NULL]

\* ------------------------------------------------------------------------
\* Ledger helpers
\* ------------------------------------------------------------------------
Ingredient(id, name, category, count, servingsPerCount, pinned, notes) ==
  [id |-> id, name |-> name, category |-> category, count |-> count,
   servingsPerCount |-> servingsPerCount, pinned |-> pinned, notes |-> notes]

createId(prefix, n) == prefix \o "-" \o ToString(n)

adjustInventoryForIngredientRefs(ings, refs, direction) ==
  LET multiplier == IF direction = "consume" THEN -1 ELSE 1
      adjust(ingredient) ==
        LET Match(ref) ==
              \/ Truthy(ref.ingredientId) /\ ref.ingredientId = ingredient.id
              \/ ~Truthy(ref.ingredientId) /\ normalizeName(ref.name) = normalizeName(ingredient.name)
            matching == {i \in 1..Len(refs) : Match(refs[i])}
            total == LET RECURSIVE Sum(_)
                         Sum(S) == IF S = {} THEN 0
                                   ELSE LET i == CHOOSE i \in S : TRUE IN refs[i].qty + Sum(S \ {i})
                     IN Sum(matching)
            delta == servingsToCountDelta(total, ingredient.servingsPerCount)
            nextCount == FracAdd(Frac(ingredient.count, 1), Frac(multiplier * delta.n, delta.d))
        IN [ingredient EXCEPT !.count = roundCount(FracMax0(nextCount))]
  IN [i \in 1..Len(ings) |-> adjust(ings[i])]

\* ------------------------------------------------------------------------
\* History
\* ------------------------------------------------------------------------
SnapshotFields == {"ingredients", "meals", "profiles", "customCategories", "pinnedMealIds",
                   "weekPlans", "currentWeekStartDate", "inventorySort"}

snapshotFromState(s) == [k \in SnapshotFields |-> s[k]]

\* list.slice(-n) and list.slice(0, n)
sliceLast(list, n) == IF Len(list) <= n THEN list ELSE SubSeq(list, Len(list) - n + 1, Len(list))
sliceFirst(list, n) == IF Len(list) <= n THEN list ELSE SubSeq(list, 1, n)

\* commitWithHistory that leaves the future stack as it was
commitWithHistoryKeepFuture(s, patch) ==
  LET nextPast == sliceLast(Append(s.past, snapshotFromState(s)), HISTORY_LIMIT)
  IN [k \in DOMAIN s |->
        IF k = "past" THEN nextPast
        ELSE IF k \in DOMAIN patch THEN patch[k]
        ELSE s[k]]

\* commitWithHistory taking its snapshot after the patch instead of before it
commitWithHistoryLate(s, patch) ==
  LET patched == [k \in DOMAIN s |-> IF k \in DOMAIN patch THEN patch[k] ELSE s[k]]
      nextPast == sliceLast(Append(s.past, snapshotFromState(patched)), HISTORY_LIMIT)
  IN [patched EXCEPT !.past = nextPast, !.future = <<>>]

\* set(...) merging the patch, with the history entry of commitWithHistory.
commitWithHistory(s, patch) ==
  LET nextPast == sliceLast(Append(s.past, snapshotFromState(s)), HISTORY_LIMIT)
  IN [k \in DOMAIN s |->
        IF k = "past" THEN nextPast
        ELSE IF k = "future" THEN <<>>
        ELSE IF k \in DOMAIN patch THEN patch[k]
        ELSE s[k]]

ensurePlan(plans, weekStartDate) ==
  IF weekStartDate \in DOMAIN plans THEN plans
  ELSE [k \in DOMAIN plans \cup {weekStartDate} |->
          IF k = weekStartDate THEN createEmptyWeekPlan(weekStartDate) ELSE plans[k]]

\* undo that forgets to push the live state onto the future stack
undoWithoutFuture(s) ==
  IF Len(s.past) = 0 THEN s
  ELSE LET previous == s.past[Len(s.past)]
       IN [k \in DOMAIN s |->
             IF k = "past" THEN SubSeq(s.past, 1, Len(s.past) - 1)
             ELSE IF k \in DOMAIN previous THEN previous[k]
             ELSE s[k]]

\* undo that leaves the displayed week where it is
undoKeepingWeek(s) ==
  IF Len(s.past) = 0 THEN s
  ELSE LET previous == s.past[Len(s.past)]
           currentSnapshot == snapshotFromState(s)
       IN [k \in DOMAIN s |->
             IF k = "past" THEN SubSeq(s.past, 1, Len(s.past) - 1)
             ELSE IF k = "future" THEN sliceFirst(<<currentSnapshot>> \o s.future, HISTORY_LIMIT)
             ELSE IF k = "currentWeekStartDate" THEN s[k]
             ELSE IF k \in DOMAIN previous THEN previous[k]
             ELSE s[k]]

undo(s) ==
  IF Len(s.past) = 0 THEN s
  ELSE LET previous == s.past[Len(s.past)]
           currentSnapshot == snapshotFromState(s)
       IN [k \in DOMAIN s |->
             IF k = "past" THEN SubSeq(s.past, 1, Len(s.past) - 1)
             ELSE IF k = "future" THEN sliceFirst(<<currentSnapshot>> \o s.future, HISTORY_LIMIT)
             ELSE IF k \in DOMAIN previous THEN previous[k]
             ELSE s[k]]

\* redo that leaves the redone snapshot on the future stack
redoKeepingFuture(s) ==
  IF Len(s.future) = 0 THEN s
  ELSE LET next == s.future[1]
           currentSnapshot == snapshotFromState(s)
       IN [k \in DOMAIN s |->
             IF k = "past" THEN sliceLast(Append(s.past, currentSnapshot), HISTORY_LIMIT)
             ELSE IF k = "future" THEN s.future
             ELSE IF k \in DOMAIN next THEN next[k]
             ELSE s[k]]

redo(s) ==
  IF Len(s.future) = 0 THEN s
  ELSE LET next == s.future[1]
           currentSnapshot == snapshotFromState(s)
       IN [k \in DOMAIN s |->
             IF k = "past" THEN sliceLast(Append(s.past, currentSnapshot), HISTORY_LIMIT)
             ELSE IF k = "future" THEN Tail(s.future)
             ELSE IF k \in DOMAIN next THEN next[k]
             ELSE s[k]]

\* ------------------------------------------------------------------------
\* Consumption engine
\* ------------------------------------------------------------------------
currentPlan(s) == ensurePlan(s.weekPlans, s.currentWeekStartDate)[s.currentWeekStartDate]

withPlan(s, plan) ==
  LET plans == ensurePlan(s.weekPlans, s.currentWeekStartDate)
  IN [plans EXCEPT ![s.currentWeekStartDate] = plan]

dropIngredientToCell(s, address, ingredientId) ==
  LET plan == currentPlan(s)
      HasId(item) == item.id = ingredientId
      found == findIndex(s.ingredients, HasId)
  IN IF found = 0 THEN s
     ELSE
       LET ingredient == s.ingredients[found]
           existing == getSlot(plan, address)
           seeded ==
             IF existing = NULL
               THEN [defaultSlotEntry EXCEPT !.servings =
                       Unit * Max(1, MathRound(Frac(Nullish(ingredient.servingsPerCount, Unit), Unit)))]
               ELSE existing
           current == [seeded EXCEPT !.ingredientRefs =
                         addIngredientRef(@, Ref(ingredient.id, ingredient.name, Unit))]
           deltaCount == servingsToCountDelta(Unit, ingredient.servingsPerCount)
           consume(item) ==
             IF item.id = ingredient.id
               THEN [item EXCEPT !.count =
                       roundCount(FracMax0(FracAdd(Frac(item.count, 1), FracNeg(deltaCount))))]
               ELSE item
       IN commitWithHistory(s,
            [weekPlans |-> withPlan(s, setSlot(plan, address, current)),
             ingredients |-> [i \in 1..Len(s.ingredients) |-> consume(s.ingredients[i])]])

RECURSIVE dropMealLines(_, _, _, _)
\* meal.ingredients.forEach of dropMealToCell: acc holds the refs and the ledger so far.
dropMealLines(lines, servingScale, refs, ings) ==
  IF lines = <<>> THEN [refs |-> refs, ingredients |-> ings]
  ELSE
    LET item == Head(lines)
        qty == Max(1, MathRound(Frac(Max(Unit, Nullish(item.qty, Unit)) * servingScale.n,
                                     servingScale.d)))
        SameName(ingredient) == normalizeName(ingredient.name) = normalizeName(item.name)
        matched == findIndex(ings, SameName)
        nextRefs == addIngredientRef(refs,
                      Ref(IF matched > 0 THEN ings[matched].id ELSE UNDEF, item.name, qty))
        nextIngs ==
          IF matched > 0
            THEN [ings EXCEPT ![matched].count =
                    roundCount(FracMax0(FracAdd(Frac(@, 1),
                       FracNeg(servingsToCountDelta(qty, ings[matched].servingsPerCount)))))]
            ELSE ings
    IN dropMealLines(Tail(lines), servingScale, nextRefs, nextIngs)

dropMealToCell(s, address, mealId) ==
  LET HasId(item) == item.id = mealId
      found == findIndex(s.meals, HasId)
  IN IF found = 0 THEN s
     ELSE
       LET meal == s.meals[found]
           plan == currentPlan(s)
           existing == getSlot(plan, address)
           base == IF existing = NULL THEN defaultSlotEntry ELSE existing
           servings == OrElse(OrElse(base.servings, meal.servingsDefault), 2 * Unit)
           restored ==
             IF existing # NULL
               THEN adjustInventoryForIngredientRefs(s.ingredients, existing.ingredientRefs, "restore")
               ELSE s.ingredients
           servingScale == Frac(servings, Max(Unit, OrElse(meal.servingsDefault, Unit)))
           result == dropMealLines(meal.ingredients, servingScale, <<>>, restored)
           current == [base EXCEPT !.mealId = meal.id, !.adHocMealName = UNDEF,
                                   !.servings = servings, !.ingredientRefs = result.refs]
       IN commitWithHistory(s,
            [weekPlans |-> withPlan(s, setSlot(plan, address, current)),
             ingredients |-> result.ingredients])

sameAddress(source, target) ==
  /\ slotKey(source) = slotKey(target)
  /\ source.day = target.day
  /\ source.mealType = target.mealType

\* moveOrSwapCell that always moves: the source is emptied, the target's content is lost
moveOrSwapCellAsMove(s, source, target) ==
  IF sameAddress(source, target) THEN s
  ELSE
    LET plan == currentPlan(s)
        sourceEntry == getSlot(plan, source)
    IN IF sourceEntry = NULL THEN s
       ELSE commitWithHistory(s,
              [weekPlans |-> withPlan(s, setSlot(setSlot(plan, source, NULL), target, sourceEntry))])

moveOrSwapCell(s, source, target) ==
  IF sameAddress(source, target) THEN s
  ELSE
    LET plan == currentPlan(s)
        sourceEntry == getSlot(plan, source)
    IN IF sourceEntry = NULL THEN s
       ELSE
         LET targetEntry == getSlot(plan, target)
             swapped == setSlot(setSlot(plan, source, targetEntry), target, sourceEntry)
         IN commitWithHistory(s, [weekPlans |-> withPlan(s, swapped)])

\* clearCell that gives the cleared slot's ingredients back to the ledger
clearCellRestoring(s, address) ==
  LET plan == currentPlan(s)
      slot == getSlot(plan, address)
  IN commitWithHistory(s,
       [weekPlans |-> withPlan(s, setSlot(plan, address, NULL)),
        ingredients |->
          IF slot = NULL THEN s.ingredients
          ELSE adjustInventoryForIngredientRefs(s.ingredients, slot.ingredientRefs, "restore")])

clearCell(s, address) ==
  commitWithHistory(s, [weekPlans |-> withPlan(s, setSlot(currentPlan(s), address, NULL))])

removeCellToInventory(s, address) ==
  LET plan == currentPlan(s)
      slot == getSlot(plan, address)
  IN IF slot = NULL THEN s
     ELSE commitWithHistory(s,
            [weekPlans |-> withPlan(s, setSlot(plan, address, NULL)),
             ingredients |->
               adjustInventoryForIngredientRefs(s.ingredients, slot.ingredientRefs, "restore")])

\* list.splice(index, 1) with a 0-based index: the list without that item.
spliceOne(list, index) ==
  SubSeq(list, 1, index) \o SubSeq(list, index + 2, Len(list))

\* removeIngredientRefFromCell that leaves the slot's meal id and name alone
removeIngredientRefKeepingMeal(s, address, index) ==
  LET plan == currentPlan(s)
      slot == getSlot(plan, address)
  IN IF slot = NULL THEN s
     ELSE IF index < 0 \/ index >= Len(slot.ingredientRefs) THEN s
     ELSE
       LET removedRef == slot.ingredientRefs[index + 1]
           rest == [slot EXCEPT !.ingredientRefs = spliceOne(@, index)]
           nextPlan == IF Len(rest.ingredientRefs) = 0
                         THEN setSlot(plan, address, NULL)
                         ELSE setSlot(plan, address, rest)
       IN commitWithHistory(s,
            [weekPlans |-> withPlan(s, nextPlan),
             ingredients |->
               adjustInventoryForIngredientRefs(s.ingredients, <<removedRef>>, "restore")])

removeIngredientRefFromCell(s, address, index) ==
  LET plan == currentPlan(s)
      slot == getSlot(plan, address)
  IN IF slot = NULL THEN s
     ELSE IF index < 0 \/ index >= Len(slot.ingredientRefs) THEN s
     ELSE
       LET removedRef == slot.ingredientRefs[index + 1]
           rest == [slot EXCEPT !.ingredientRefs = spliceOne(@, index),
                                !.mealId = UNDEF, !.adHocMealName = UNDEF]
           nextPlan == IF Len(rest.ingredientRefs) = 0
                         THEN setSlot(plan, address, NULL)
                         ELSE setSlot(plan, address, rest)
       IN commitWithHistory(s,
            [weekPlans |-> withPlan(s, nextPlan),
             ingredients |->
               adjustInventoryForIngredientRefs(s.ingredients, <<removedRef>>, "restore")])

\* duplicateCell that empties the source (a move)
duplicateCellEmptyingSource(s, source, target) ==
  LET plan == currentPlan(s)
      sourceEntry == getSlot(plan, source)
  IN IF sourceEntry = NULL THEN s
     ELSE commitWithHistory(s,
            [weekPlans |-> withPlan(s, setSlot(setSlot(plan, target, sourceEntry), source, NULL))])

duplicateCell(s, source, target) ==
  LET plan == currentPlan(s)
      sourceEntry == getSlot(plan, source)
  IN IF sourceEntry = NULL THEN s
     ELSE commitWithHistory(s, [weekPlans |-> withPlan(s, setSlot(plan, target, sourceEntry))])

\* makeLeftovers writing into the source's own meal row instead of lunch
makeLeftoversSameRow(s, address) ==
  IF address.day >= 6 THEN s
  ELSE
    LET plan == currentPlan(s)
        sourceEntry == getSlot(plan, address)
    IN IF sourceEntry = NULL THEN s
       ELSE
         LET leftovers == [sourceEntry EXCEPT !.isLeftovers = BoolT]
             target == Address(address.mealType, address.day + 1, address.targetType,
                               address.profileId)
         IN commitWithHistory(s, [weekPlans |-> withPlan(s, setSlot(plan, target, leftovers))])

makeLeftovers(s, address) ==
  IF address.day >= 6 THEN s
  ELSE
    LET plan == currentPlan(s)
        sourceEntry == getSlot(plan, address)
    IN IF sourceEntry = NULL THEN s
       ELSE
         LET leftovers == [sourceEntry EXCEPT !.isLeftovers = BoolT]
             target == Address("lunch", address.day + 1, address.targetType, address.profileId)
         IN commitWithHistory(s, [weekPlans |-> withPlan(s, setSlot(plan, target, leftovers))])

\* The refs of the list whose key occurs for the first time, in order: one per unique key.
firstOfKey(list) ==
  SelectSeq([i \in 1..Len(list) |-> [i |-> i, ref |-> list[i]]],
            LAMBDA e : \A j \in 1..(e.i - 1) : refKey(list[j]) # refKey(e.ref))

findByKey(list, key) ==
  LET SameKey(ref) == refKey(ref) = key
  IN findIndex(list, SameKey)

setCellServings(s, address, servings) ==
  LET validServings == Unit * Max(1, MathFloor(servings))
      plan == currentPlan(s)
      original == getSlot(plan, address)
  IN IF original = NULL THEN s
     ELSE
       LET previousServings == Max(Unit, OrElse(original.servings, Unit))
           nextIngredientRefs ==
             scaleIngredientRefs(original.ingredientRefs, Frac(validServings, previousServings))
           current == [original EXCEPT !.servings = validServings,
                                       !.ingredientRefs = nextIngredientRefs]
           \* `current` and `original` name one object (const current = original), so
           \* original.ingredientRefs read after the assignment is the scaled list.
           originalRefs == current.ingredientRefs
           allRefs == originalRefs \o nextIngredientRefs
           uniqueKeys == firstOfKey(allRefs)
           deltaOf(key) ==
             LET o == findByKey(originalRefs, key)
                 n == findByKey(nextIngredientRefs, key)
             IN Ref(IF n > 0 THEN nextIngredientRefs[n].ingredientId
                    ELSE IF o > 0 THEN originalRefs[o].ingredientId ELSE UNDEF,
                    IF n > 0 THEN nextIngredientRefs[n].name
                    ELSE IF o > 0 THEN originalRefs[o].name ELSE "",
                    (IF n > 0 THEN nextIngredientRefs[n].qty ELSE 0)
                      - (IF o > 0 THEN originalRefs[o].qty ELSE 0))
           deltaRefs ==
             SelectSeq([i \in 1..Len(uniqueKeys) |-> deltaOf(refKey(uniqueKeys[i].ref))],
                       LAMBDA item : Truthy(item.name) /\ item.qty # 0)
           adjust(ingredient) ==
             LET Match(ref) ==
                   \/ Truthy(ref.ingredientId) /\ ref.ingredientId = ingredient.id
                   \/ ~Truthy(ref.ingredientId)
                        /\ normalizeName(ref.name) = normalizeName(ingredient.name)
                 matching == {i \in 1..Len(deltaRefs) : Match(deltaRefs[i])}
                 net == LET RECURSIVE Sum(_)
                            Sum(S) == IF S = {} THEN 0
                                      ELSE LET i == CHOOSE i \in S : TRUE
                                           IN deltaRefs[i].qty + Sum(S \ {i})
                        IN Sum(matching)
                 deltaCount == servingsToCountDelta(net, ingredient.servingsPerCount)
                 nextCount == FracAdd(Frac(ingredient.count, 1), FracNeg(deltaCount))
             IN [ingredient EXCEPT !.count = roundCount(FracMax0(nextCount))]
       IN commitWithHistory(s,
            [weekPlans |-> withPlan(s, setSlot(plan, address, current)),
             ingredients |-> [i \in 1..Len(s.ingredients) |-> adjust(s.ingredients[i])]])

Meal(id, name, lines, servingsDefault, pinned) ==
  [id |-> id, name |-> name, ingredients |-> lines, servingsDefault |-> servingsDefault,
   pinned |-> pinned]

MealLine(name, category, qty) == [name |-> name, category |-> category, qty |-> qty]

\* String.prototype.trim on a string of the name table.
trimString(str) ==
  LET cs == trim(NameChars[str])
  IN IF cs = NameChars[str] THEN str
     ELSE CHOOSE t \in DOMAIN NameChars : NameChars[t] = cs

saveCellAsMeal(s, address, mealName) ==
  LET trimmed == trimString(mealName)
  IN IF ~Truthy(trimmed) THEN s
     ELSE
       LET slot == getSlot(currentPlan(s), address)
       IN IF slot = NULL THEN s
          ELSE
            LET meal == Meal(createId("meal", s.nextId), trimmed,
                             [i \in 1..Len(slot.ingredientRefs) |->
                                MealLine(slot.ingredientRefs[i].name, UNDEF,
                                         slot.ingredientRefs[i].qty)],
                             OrElse(slot.servings, 2 * Unit), BoolT)
            IN commitWithHistory([s EXCEPT !.nextId = @ + 1],
                 [meals |-> <<meal>> \o s.meals,
                  pinnedMealIds |-> <<meal.id>> \o s.pinnedMealIds])

\* ------------------------------------------------------------------------
\* Ingredient ledger
\* ------------------------------------------------------------------------
NullishStr(a, b) == IF a = UNDEF THEN b ELSE a

addOrMergeIngredient(s, input) ==
  LET normalized == normalizeName(input.name)
      SameName(ingredient) == normalizeName(ingredient.name) = normalized
      found == findIndex(s.ingredients, SameName)
  IN IF found > 0
       THEN
         LET existing == s.ingredients[found]
             merge(ingredient) ==
               IF ingredient.id = existing.id
                 THEN [ingredient EXCEPT
                         !.count = Max(0, ingredient.count + input.count),
                         !.servingsPerCount =
                            normalizeServingsPerCount(
                              Nullish(input.servingsPerCount, ingredient.servingsPerCount)),
                         !.category = NullishStr(input.category, ingredient.category),
                         !.notes = NullishStr(input.notes, ingredient.notes),
                         !.pinned = NullishStr(input.pinned, ingredient.pinned)]
                 ELSE ingredient
         IN commitWithHistory(s,
              [ingredients |-> [i \in 1..Len(s.ingredients) |-> merge(s.ingredients[i])]])
       ELSE
         LET ingredient ==
               Ingredient(createId("ingredient", s.nextId), input.name,
                          IF input.category \in CATEGORIES THEN input.category ELSE "Other",
                          Max(0, input.count),
                          normalizeServingsPerCount(input.servingsPerCount),
                          input.pinned, input.notes)
         IN commitWithHistory([s EXCEPT !.nextId = @ + 1],
              [ingredients |-> <<ingredient>> \o s.ingredients])

updateIngredient(s, id, updates) ==
  LET patch(ingredient) ==
        IF ingredient.id = id
          THEN [k \in DOMAIN ingredient |->
                  IF k = "count"
                    THEN IF "count" \notin DOMAIN updates THEN ingredient.count
                         ELSE Max(0, updates.count)
                  ELSE IF k = "servingsPerCount"
                    THEN IF "servingsPerCount" \notin DOMAIN updates
                           THEN ingredient.servingsPerCount
                           ELSE normalizeServingsPerCount(updates.servingsPerCount)
                  ELSE IF k \in DOMAIN updates THEN updates[k]
                  ELSE ingredient[k]]
          ELSE ingredient
  IN commitWithHistory(s,
       [ingredients |-> [i \in 1..Len(s.ingredients) |-> patch(s.ingredients[i])]])

\* deleteIngredient that also takes the refs bound to the id out of the family slots of
\* the displayed week
deleteIngredientUnbinding(s, id) ==
  LET plan == currentPlan(s)
      unbound(cell) ==
        IF cell = NULL \/ cell.family = NULL THEN cell
        ELSE [cell EXCEPT !.family.ingredientRefs =
                SelectSeq(cell.family.ingredientRefs, LAMBDA ref : ref.ingredientId # id)]
  IN commitWithHistory(s,
       [ingredients |-> SelectSeq(s.ingredients, LAMBDA ingredient : ingredient.id # id),
        weekPlans |-> withPlan(s,
          [plan EXCEPT !.grid = [mt \in MEAL_TYPES |-> [d \in Days |-> unbound(plan.grid[mt][d])]]])])

deleteIngredient(s, id) ==
  commitWithHistory(s,
    [ingredients |-> SelectSeq(s.ingredients, LAMBDA ingredient : ingredient.id # id)])

adjustIngredientCount(s, id, delta) ==
  LET adjust(ingredient) ==
        IF ingredient.id = id
          THEN [ingredient EXCEPT !.count = Max(0, roundCount(Frac(ingredient.count + delta, 1)))]
          ELSE ingredient
  IN commitWithHistory(s,
       [ingredients |-> [i \in 1..Len(s.ingredients) |-> adjust(s.ingredients[i])]])

clearInventory(s) == commitWithHistory(s, [ingredients |-> <<>>])

\* ------------------------------------------------------------------------
\* Import reconciler
\* ------------------------------------------------------------------------
RECURSIVE mergeItemsAlwaysNew(_, _, _)
\* mergeItems that adds a new ingredient for every draft, never looking for an existing one
mergeItemsAlwaysNew(items, ings, nid) ==
  IF items = <<>> THEN [ingredients |-> ings, nextId |-> nid]
  ELSE
    LET item == Head(items)
    IN mergeItemsAlwaysNew(Tail(items),
         <<Ingredient(createId("ingredient", nid), item.name, item.category,
                      Max(Unit, item.count), Unit, UNDEF, UNDEF)>> \o ings,
         nid + 1)

RECURSIVE mergeItems(_, _, _)
\* items.forEach of mergeReceiptItems: the ledger and the id counter after the items.
mergeItems(items, ings, nid) ==
  IF items = <<>> THEN [ingredients |-> ings, nextId |-> nid]
  ELSE
    LET item == Head(items)
        normalized == normalizeName(item.name)
        SameName(ingredient) == normalizeName(ingredient.name) = normalized
        found == findIndex(ings, SameName)
    IN IF found > 0
         THEN mergeItems(Tail(items),
                [i \in 1..Len(ings) |->
                   IF ings[i].id = ings[found].id
                     THEN [ings[i] EXCEPT !.count = @ + Max(Unit, item.count)]
                     ELSE ings[i]],
                nid)
         ELSE mergeItems(Tail(items),
                <<Ingredient(createId("ingredient", nid), item.name, item.category,
                             Max(Unit, item.count), Unit, UNDEF, UNDEF)>> \o ings,
                nid + 1)

mergeReceiptItems(s, items) ==
  LET merged == mergeItems(items, s.ingredients, s.nextId)
  IN commitWithHistory([s EXCEPT !.nextId = merged.nextId], [ingredients |-> merged.ingredients])

\* ------------------------------------------------------------------------
\* Import, demo data and navigation
\* ------------------------------------------------------------------------
Profile(id, name, goalEnabled, dailyCalorieGoal) ==
  [id |-> id, name |-> name, goalEnabled |-> goalEnabled, dailyCalorieGoal |-> dailyCalorieGoal]

baseProfiles(nid) == <<Profile(createId("profile", nid), "Me", BoolF, NoNumber),
                       Profile(createId("profile", nid + 1), "Erica", BoolF, NoNumber)>>

\* cloneSlot of an entry that may be null or undefined
cloneSlot(entry) == entry

hasAnySlot(slots) == \E k \in DOMAIN slots : slots[k] # NULL

\* normalizeCell that reads a cell of an older shape as empty
normalizeCellModernOnly(rawCell, primaryProfileId) ==
  IF rawCell = NULL THEN NULL
  ELSE IF "family" \in DOMAIN rawCell /\ "profiles" \in DOMAIN rawCell
    THEN IF rawCell.family = NULL /\ ~hasAnySlot(rawCell.profiles) THEN NULL
         ELSE [family |-> cloneSlot(rawCell.family),
               profiles |-> [k \in DOMAIN rawCell.profiles |-> cloneSlot(rawCell.profiles[k])]]
  ELSE NULL

\* normalizeCell that keeps the family slot only
normalizeCellFamilyOnly(rawCell, primaryProfileId) ==
  IF rawCell = NULL THEN NULL
  ELSE IF "family" \in DOMAIN rawCell /\ rawCell.family # NULL
    THEN [family |-> cloneSlot(rawCell.family), profiles |-> <<>>]
  ELSE NULL

normalizeCell(rawCell, primaryProfileId) ==
  IF rawCell = NULL THEN NULL
  ELSE IF "ingredientRefs" \in DOMAIN rawCell
    THEN [family |-> Slot(rawCell.mealId, rawCell.adHocMealName, rawCell.ingredientRefs,
                          Nullish(rawCell.servings, 2 * Unit), rawCell.notes,
                          rawCell.isLeftovers),
          profiles |-> <<>>]
  ELSE IF "family" \in DOMAIN rawCell /\ "profiles" \in DOMAIN rawCell
    THEN IF rawCell.family = NULL /\ ~hasAnySlot(rawCell.profiles) THEN NULL
         ELSE [family |-> cloneSlot(rawCell.family),
               profiles |-> [k \in DOMAIN rawCell.profiles |-> cloneSlot(rawCell.profiles[k])]]
  ELSE IF ~hasAnySlot(rawCell) THEN NULL
  ELSE
    LET primaryMissing == primaryProfileId \notin DOMAIN rawCell
                            \/ rawCell[primaryProfileId] = NULL
        firstExisting == rawCell[CHOOSE k \in DOMAIN rawCell : rawCell[k] # NULL]
    IN [family |-> NULL,
        profiles |-> [k \in DOMAIN rawCell \cup {primaryProfileId} |->
                        IF k = primaryProfileId /\ primaryMissing THEN firstExisting
                        ELSE rawCell[k]]]

normalizeWeekPlan(plan, primaryProfileId) ==
  [weekStartDate |-> plan.weekStartDate,
   grid |-> [mt \in MEAL_TYPES |->
               [d \in DOMAIN plan.grid[mt] |-> normalizeCell(plan.grid[mt][d], primaryProfileId)]]]

\* [...new Set(list)]: the list without repeated values, first occurrences kept.
dedupe(list) ==
  SelectSeq([i \in 1..Len(list) |-> [i |-> i, v |-> list[i]]],
            LAMBDA e : \A j \in 1..(e.i - 1) : list[j] # e.v)

\* CATEGORIES.some((base) => base.toLowerCase() === category.toLowerCase())
isBaseCategory(category) ==
  category \in CATEGORIES \cup {"protein", "dairy", "produce", "pantry", "other"}

PayloadRequired == {"currentWeekStartDate", "ingredients", "meals", "weekPlans"}

\* importState that keeps the meals of the store instead of taking the payload's
importStateKeepMeals(s, payload) ==
  IF ~(PayloadRequired \subseteq DOMAIN payload) THEN s
  ELSE
    LET given == "profiles" \in DOMAIN payload /\ Len(payload.profiles) > 0
        nextProfiles == IF given THEN payload.profiles ELSE baseProfiles(s.nextId)
        primaryProfileId == nextProfiles[1].id
    IN commitWithHistory([s EXCEPT !.nextId = IF given THEN @ ELSE @ + 2],
         [ingredients |->
            [i \in 1..Len(payload.ingredients) |->
               [payload.ingredients[i] EXCEPT
                  !.servingsPerCount = normalizeServingsPerCount(@)]],
          profiles |-> nextProfiles,
          pinnedMealIds |-> IF "pinnedMealIds" \in DOMAIN payload
                              THEN payload.pinnedMealIds ELSE <<>>,
          weekPlans |-> [k \in DOMAIN payload.weekPlans |->
                           normalizeWeekPlan(payload.weekPlans[k], primaryProfileId)],
          currentWeekStartDate |-> payload.currentWeekStartDate,
          inventorySort |-> "category"])

importState(s, payload) ==
  IF ~(PayloadRequired \subseteq DOMAIN payload) THEN s
  ELSE
    LET given == "profiles" \in DOMAIN payload /\ Len(payload.profiles) > 0
        nextProfiles == IF given THEN payload.profiles ELSE baseProfiles(s.nextId)
        primaryProfileId == nextProfiles[1].id
        extra == SelectSeq([i \in 1..Len(payload.ingredients) |-> payload.ingredients[i].category],
                           LAMBDA category : ~isBaseCategory(category))
        listed == IF "customCategories" \in DOMAIN payload THEN payload.customCategories ELSE <<>>
        merged == dedupe(listed \o extra)
    IN commitWithHistory([s EXCEPT !.nextId = IF given THEN @ ELSE @ + 2],
         [ingredients |->
            [i \in 1..Len(payload.ingredients) |->
               [payload.ingredients[i] EXCEPT
                  !.servingsPerCount = normalizeServingsPerCount(@)]],
          meals |-> payload.meals,
          profiles |-> nextProfiles,
          customCategories |-> [i \in 1..Len(merged) |-> merged[i].v],
          pinnedMealIds |-> IF "pinnedMealIds" \in DOMAIN payload
                              THEN payload.pinnedMealIds ELSE <<>>,
          weekPlans |-> [k \in DOMAIN payload.weekPlans |->
                           normalizeWeekPlan(payload.weekPlans[k], primaryProfileId)],
          currentWeekStartDate |-> payload.currentWeekStartDate,
          inventorySort |-> "category"])

\* The week of `new Date()`: time does not advance in the model.
Today == 0

\* The head of the demo tables (40 ingredients and 22 meals in the source).
BaseIngredientTable == << <<"chicken breast", "Protein", 16>>, <<"penne", "Pantry", 8>> >>

baseIngredients(nid) ==
  [i \in 1..Len(BaseIngredientTable) |->
     Ingredient(createId("ingredient", nid + i - 1), BaseIngredientTable[i][1],
                BaseIngredientTable[i][2], Unit * BaseIngredientTable[i][3], Unit, UNDEF, UNDEF)]

baseMeals(nid) ==
  << Meal(createId("meal", nid), "Chicken + Penne",
          <<MealLine("chicken breast", "Protein", Unit), MealLine("penne", "Pantry", Unit)>>,
          2 * Unit, BoolT) >>

slotFromMeal(meal, ings) ==
  Slot(meal.id, UNDEF,
       [i \in 1..Len(meal.ingredients) |->
          LET item == meal.ingredients[i]
              SameName(ingredient) == normalizeName(ingredient.name) = normalizeName(item.name)
              matched == findIndex(ings, SameName)
          IN Ref(IF matched > 0 THEN ings[matched].id ELSE UNDEF, item.name,
                 Max(Unit, Nullish(item.qty, Unit)))],
       OrElse(meal.servingsDefault, 2 * Unit), UNDEF, UNDEF)

\* mealCycle restricted to the meals of baseMeals: lunch of day 1 and dinner of day 4.
createPlannedDemoWeek(weekStartDate, demoMeals, ings, demoProfiles) ==
  LET family == slotFromMeal(demoMeals[1], ings)
      empty == createEmptyWeekPlan(weekStartDate)
  IN [empty EXCEPT !.grid["lunch"][1] = [family |-> family, profiles |-> <<>>],
                   !.grid["dinner"][4] = [family |-> family, profiles |-> <<>>]]

createDemoState(nid) ==
  LET demoProfiles == baseProfiles(nid)
      demoMeals == baseMeals(nid + 2)
      ings == baseIngredients(nid + 3)
  IN [ingredients |-> ings,
      meals |-> demoMeals,
      profiles |-> demoProfiles,
      customCategories |-> <<>>,
      pinnedMealIds |-> <<demoMeals[1].id>>,
      weekPlans |-> (Today :> createPlannedDemoWeek(Today, demoMeals, ings, demoProfiles)),
      currentWeekStartDate |-> Today,
      inventorySort |-> "category"]

\* resetDemoData that starts a fresh history instead of committing
resetDemoDataFreshHistory(s) ==
  [k \in DOMAIN s |->
     IF k \in {"past", "future"} THEN <<>>
     ELSE IF k = "nextId" THEN s.nextId + 3 + Len(BaseIngredientTable)
     ELSE createDemoState(s.nextId)[k]]

resetDemoData(s) ==
  commitWithHistory([s EXCEPT !.nextId = @ + 3 + Len(BaseIngredientTable)],
                    createDemoState(s.nextId))

\* shiftWeek that goes through the history like a data command
shiftWeekCommitting(s, delta) ==
  LET next == s.currentWeekStartDate + delta
  IN commitWithHistory(s,
       [currentWeekStartDate |-> next, weekPlans |-> ensurePlan(s.weekPlans, next)])

shiftWeek(s, delta) ==
  LET next == s.currentWeekStartDate + delta
  IN [s EXCEPT !.currentWeekStartDate = next, !.weekPlans = ensurePlan(s.weekPlans, next)]

setWeek(s, weekStartDate) ==
  [s EXCEPT !.currentWeekStartDate = weekStartDate,
            !.weekPlans = ensurePlan(s.weekPlans, weekStartDate)]

setInventorySort(s, value) == [s EXCEPT !.inventorySort = value]

\* ------------------------------------------------------------------------
\* Profiles, meals and the remaining ledger commands
\* ------------------------------------------------------------------------
addProfile(s, name) ==
  LET trimmed == trimString(name)
      profile == Profile(createId("profile", s.nextId),
                         IF Truthy(trimmed) THEN trimmed
                         ELSE "Person " \o ToString(Len(s.profiles) + 1),
                         BoolF, NoNumber)
  IN commitWithHistory([s EXCEPT !.nextId = @ + 1], [profiles |-> Append(s.profiles, profile)])

updateProfile(s, id, updates) ==
  LET patch(profile) ==
        IF profile.id # id THEN profile
        ELSE
          LET given(k) == k \in DOMAIN updates
              name == IF given("name") /\ Truthy(trimString(updates.name))
                        THEN trimString(updates.name) ELSE profile.name
              goalEnabled == IF given("goalEnabled") THEN updates.goalEnabled
                             ELSE profile.goalEnabled
              goal == IF given("dailyCalorieGoal") THEN updates.dailyCalorieGoal
                      ELSE profile.dailyCalorieGoal
          IN Profile(profile.id, name, goalEnabled,
                     IF goalEnabled = BoolT THEN goal ELSE NoNumber)
  IN commitWithHistory(s, [profiles |-> [i \in 1..Len(s.profiles) |-> patch(s.profiles[i])]])

\* deleteProfile without the refusal to delete the last profile
deleteProfileUnguarded(s, id) ==
  LET strip(cell) ==
        IF cell = NULL THEN NULL
        ELSE LET nextCell == [cell EXCEPT !.profiles =
                                [k \in DOMAIN cell.profiles \ {id} |-> cell.profiles[k]]]
             IN IF nextCell.family # NULL \/ hasAnySlot(nextCell.profiles)
                  THEN nextCell ELSE NULL
      stripPlan(plan) ==
        [plan EXCEPT !.grid = [mt \in MEAL_TYPES |->
                                 [d \in DOMAIN plan.grid[mt] |-> strip(plan.grid[mt][d])]]]
  IN commitWithHistory(s,
       [profiles |-> SelectSeq(s.profiles, LAMBDA profile : profile.id # id),
        weekPlans |-> [k \in DOMAIN s.weekPlans |-> stripPlan(s.weekPlans[k])]])

\* deleteProfile that takes the profile's slots out of the displayed week only
deleteProfileCurrentWeekOnly(s, id) ==
  IF Len(s.profiles) <= 1 THEN s
  ELSE
    LET strip(cell) ==
          IF cell = NULL THEN NULL
          ELSE LET nextCell == [cell EXCEPT !.profiles =
                                  [k \in DOMAIN cell.profiles \ {id} |-> cell.profiles[k]]]
               IN IF nextCell.family # NULL \/ hasAnySlot(nextCell.profiles)
                    THEN nextCell ELSE NULL
        stripPlan(plan) ==
          [plan EXCEPT !.grid = [mt \in MEAL_TYPES |->
                                   [d \in DOMAIN plan.grid[mt] |-> strip(plan.grid[mt][d])]]]
    IN commitWithHistory(s,
         [profiles |-> SelectSeq(s.profiles, LAMBDA profile : profile.id # id),
          weekPlans |-> [k \in DOMAIN s.weekPlans |->
                           IF k = s.currentWeekStartDate THEN stripPlan(s.weekPlans[k])
                           ELSE s.weekPlans[k]]])

deleteProfile(s, id) ==
  IF Len(s.profiles) <= 1 THEN s
  ELSE
    LET strip(cell) ==
          IF cell = NULL THEN NULL
          ELSE LET nextCell == [cell EXCEPT !.profiles =
                                  [k \in DOMAIN cell.profiles \ {id} |-> cell.profiles[k]]]
               IN IF nextCell.family # NULL \/ hasAnySlot(nextCell.profiles)
                    THEN nextCell ELSE NULL
        stripPlan(plan) ==
          [plan EXCEPT !.grid = [mt \in MEAL_TYPES |->
                                   [d \in DOMAIN plan.grid[mt] |-> strip(plan.grid[mt][d])]]]
    IN commitWithHistory(s,
         [profiles |-> SelectSeq(s.profiles, LAMBDA profile : profile.id # id),
          weekPlans |-> [k \in DOMAIN s.weekPlans |-> stripPlan(s.weekPlans[k])]])

addCustomCategory(s, category) ==
  LET trimmed == trimString(category)
      lower(c) == toLowerCase(NameChars[c])
      known == CATEGORIES \cup {s.customCategories[i] : i \in 1..Len(s.customCategories)}
  IN IF ~Truthy(trimmed) THEN s
     ELSE IF \E item \in known : lower(item) = lower(trimmed) THEN s
     ELSE commitWithHistory(s, [customCategories |-> Append(s.customCategories, trimmed)])

toggleIngredientPinned(s, id) ==
  LET toggle(ingredient) ==
        IF ingredient.id = id
          THEN [ingredient EXCEPT !.pinned = IF @ = BoolT THEN BoolF ELSE BoolT]
          ELSE ingredient
  IN commitWithHistory(s,
       [ingredients |-> [i \in 1..Len(s.ingredients) |-> toggle(s.ingredients[i])]])

RECURSIVE restoreRefs(_, _, _)
\* slot.ingredientRefs.forEach of restoreSlotRefsToInventory
restoreRefs(refs, ings, nid) ==
  IF refs = <<>> THEN [ingredients |-> ings, nextId |-> nid]
  ELSE
    LET ref == Head(refs)
        qty == Max(Unit, OrElse(ref.qty, Unit))
        HasId(item) == item.id = ref.ingredientId
        SameName(item) == normalizeName(item.name) = normalizeName(ref.name)
        byIdIndex == IF Truthy(ref.ingredientId) THEN findIndex(ings, HasId) ELSE 0
        byNameIndex == findIndex(ings, SameName)
        index == IF byIdIndex > 0 THEN byIdIndex ELSE byNameIndex
    IN IF index > 0
         THEN restoreRefs(Tail(refs),
                [ings EXCEPT ![index].count =
                   roundCount(FracAdd(Frac(@, 1),
                                      servingsToCountDelta(qty, ings[index].servingsPerCount)))],
                nid)
         ELSE restoreRefs(Tail(refs),
                <<Ingredient(createId("ingredient", nid), ref.name, "Other", qty, Unit,
                             UNDEF, UNDEF)>> \o ings,
                nid + 1)

restoreSlotRefsToInventory(acc, slot) ==
  IF slot = NULL THEN acc ELSE restoreRefs(slot.ingredientRefs, acc.ingredients, acc.nextId)

\* Row by row and day by day, the family slot and then the profile slots of each cell.
MealTypeOrder == <<"breakfast", "lunch", "dinner", "snack">>

RECURSIVE restoreSlots(_, _)
restoreSlots(slots, acc) ==
  IF slots = <<>> THEN acc
  ELSE restoreSlots(Tail(slots), restoreSlotRefsToInventory(acc, Head(slots)))

RECURSIVE slotsOfMap(_, _)
\* Object.values(cell.profiles), in some order of the keys
slotsOfMap(map, keys) ==
  IF keys = {} THEN <<>>
  ELSE LET k == CHOOSE k \in keys : TRUE IN <<map[k]>> \o slotsOfMap(map, keys \ {k})

slotsOfCell(cell) ==
  IF cell = NULL THEN <<>> ELSE <<cell.family>> \o slotsOfMap(cell.profiles, DOMAIN cell.profiles)

RECURSIVE slotsOfPlan(_, _, _)
slotsOfPlan(plan, row, day) ==
  IF row > Len(MealTypeOrder) THEN <<>>
  ELSE IF day > 6 THEN slotsOfPlan(plan, row + 1, 0)
  ELSE slotsOfCell(plan.grid[MealTypeOrder[row]][day]) \o slotsOfPlan(plan, row, day + 1)

restoreWeekIngredients(ings, nid, plan) ==
  restoreSlots(slotsOfPlan(plan, 1, 0), [ingredients |-> ings, nextId |-> nid])

clearCurrentWeekAndRestoreInventory(s) ==
  LET restored == restoreWeekIngredients(s.ingredients, s.nextId, currentPlan(s))
  IN commitWithHistory([s EXCEPT !.nextId = restored.nextId],
       [ingredients |-> restored.ingredients,
        weekPlans |-> withPlan(s, createEmptyWeekPlan(s.currentWeekStartDate))])

addMeal(s, input) ==
  LET meal == Meal(createId("meal", s.nextId), input.name, input.ingredients,
                   input.servingsDefault, input.pinned)
  IN commitWithHistory([s EXCEPT !.nextId = @ + 1],
       [meals |-> <<meal>> \o s.meals,
        pinnedMealIds |-> IF meal.pinned = BoolT THEN Append(s.pinnedMealIds, meal.id)
                          ELSE s.pinnedMealIds])

updateMeal(s, id, updates) ==
  LET patch(meal) ==
        IF meal.id = id
          THEN [k \in DOMAIN meal |-> IF k \in DOMAIN updates THEN updates[k] ELSE meal[k]]
          ELSE meal
  IN commitWithHistory(s, [meals |-> [i \in 1..Len(s.meals) |-> patch(s.meals[i])]])

deleteMeal(s, id) ==
  commitWithHistory(s,
    [meals |-> SelectSeq(s.meals, LAMBDA meal : meal.id # id),
     pinnedMealIds |-> SelectSeq(s.pinnedMealIds, LAMBDA mealId : mealId # id)])

toggleMealPinned(s, id) ==
  LET isPinned == \E i \in 1..Len(s.pinnedMealIds) : s.pinnedMealIds[i] = id
      toggle(meal) ==
        IF meal.id = id THEN [meal EXCEPT !.pinned = IF isPinned THEN BoolF ELSE BoolT]
        ELSE meal
  IN commitWithHistory(s,
       [meals |-> [i \in 1..Len(s.meals) |-> toggle(s.meals[i])],
        pinnedMealIds |-> IF isPinned
                            THEN SelectSeq(s.pinnedMealIds, LAMBDA mealId : mealId # id)
                            ELSE Append(s.pinnedMealIds, id)])

movePinnedMeal(s, mealId, direction) ==
  LET IsIt(id) == id = mealId
      index == findIndex(s.pinnedMealIds, IsIt)
      target == IF direction = "left" THEN index - 1 ELSE index + 1
  IN IF index = 0 THEN s
     ELSE IF target < 1 \/ target > Len(s.pinnedMealIds) THEN s
     ELSE commitWithHistory(s,
            [pinnedMealIds |-> [s.pinnedMealIds EXCEPT ![index] = s.pinnedMealIds[target],
                                                       ![target] = s.pinnedMealIds[index]]])

\* ------------------------------------------------------------------------
\* The store as a state machine
\* ------------------------------------------------------------------------
vars == <<store, steps, lastOp>>

\* Inputs of the commands
AddrA == Address("dinner", 0, "family", UNDEF)
AddrB == Address("lunch", 1, "family", UNDEF)
AddrC == Address("dinner", 6, "family", UNDEF)
AddrP == Address("dinner", 0, "profile", "p1")
AddrQ == Address("lunch", 1, "profile", "p1")

\* Initial states: what the persisted store can hold when the page loads (history is
\* not persisted).  The chicken is out of stock and the week empty; or there are 4
\* chicken (of 1 or of 8 servings each) and dinner of day 0 is planned for the family
\* (meal m1) and for profile p1 (one chicken).

InitIngredients(c, spc) ==
  <<Ingredient("i1", "chicken", "Protein", c, spc, UNDEF, UNDEF),
    Ingredient("i2", "rice", "Pantry", 12 * Unit, Unit, UNDEF, UNDEF)>>

InitMeals ==
  <<Meal("m1", "Rice Bowl",
         <<MealLine("rice", "Pantry", 4 * Unit), MealLine("chicken", "Protein", Unit)>>,
         2 * Unit, BoolT),
    Meal("m2", "Chicken Rice",
         <<MealLine("chicken", "Protein", Unit), MealLine("Rice", "Pantry", Unit)>>,
         Unit, BoolF)>>

InitProfiles == <<Profile("p1", "Me", BoolF, NoNumber), Profile("p2", "Erica", BoolF, NoNumber)>>

PlannedWeek(spc) ==
  LET family == Slot("m1", UNDEF, <<Ref("i2", "rice", 4 * Unit), Ref("i1", "chicken", Unit)>>,
                     2 * Unit, UNDEF, UNDEF)
      own == Slot(UNDEF, UNDEF, <<Ref("i1", "chicken", Unit)>>,
                  Unit * Max(1, MathRound(Frac(spc, Unit))), UNDEF, UNDEF)
  IN [createEmptyWeekPlan(Today) EXCEPT
        !.grid["dinner"][0] = [family |-> family, profiles |-> ("p1" :> own)]]

InitStore(c, spc, plan) ==
  [ingredients |-> InitIngredients(c, spc), meals |-> InitMeals, profiles |-> InitProfiles,
   customCategories |-> <<>>, pinnedMealIds |-> <<"m1">>, weekPlans |-> (Today :> plan),
   currentWeekStartDate |-> Today, inventorySort |-> "category",
   past |-> <<>>, future |-> <<>>, nextId |-> 1]

\* A store whose history is full: HISTORY_LIMIT commands that changed nothing (toggling
\* the pin of an unknown ingredient) were issued on an imported empty backup.
BareStore ==
  [ingredients |-> <<>>, meals |-> <<>>, profiles |-> <<Profile("p1", "Me", BoolF, NoNumber)>>,
   customCategories |-> <<>>, pinnedMealIds |-> <<>>, weekPlans |-> <<>>,
   currentWeekStartDate |-> Today, inventorySort |-> "category",
   past |-> <<>>, future |-> <<>>, nextId |-> 1]

FullHistoryStore ==
  [BareStore EXCEPT !.past = [i \in 1..HISTORY_LIMIT |-> snapshotFromState(BareStore)]]

Init ==
  /\ \/ store = InitStore(0, Unit, createEmptyWeekPlan(Today))
     \/ store = InitStore(4 * Unit, Unit, PlannedWeek(Unit))
     \/ store = InitStore(4 * Unit, 8 * Unit, PlannedWeek(8 * Unit))
     \/ store = FullHistoryStore
  /\ steps = 0
  /\ lastOp = [name |-> "init", args |-> <<>>]

Op(name, args) == [name |-> name, args |-> args]

Undo ==
  /\ steps < MaxSteps
  /\ store' = undo(store)
  /\ lastOp' = Op("undo", <<>>)
  /\ steps' = steps + 1

Redo ==
  /\ steps < MaxSteps
  /\ store' = redo(store)
  /\ lastOp' = Op("redo", <<>>)
  /\ steps' = steps + 1

DropIngredientToCell ==
  \E p \in {<<AddrA, "i1">>, <<AddrB, "i1">>, <<AddrC, "i1">>, <<AddrP, "i1">>, <<AddrA, "i2">>} :
    /\ steps < MaxSteps
    /\ store' = dropIngredientToCell(store, p[1], p[2])
    /\ lastOp' = Op("dropIngredientToCell", p)
    /\ steps' = steps + 1

DropMealToCell ==
  \E p \in {<<AddrA, "m1">>, <<AddrA, "m2">>, <<AddrB, "m2">>, <<AddrP, "m2">>} :
    /\ steps < MaxSteps
    /\ store' = dropMealToCell(store, p[1], p[2])
    /\ lastOp' = Op("dropMealToCell", p)
    /\ steps' = steps + 1

MoveOrSwapCell ==
  \E p \in {<<AddrA, AddrB>>, <<AddrB, AddrA>>, <<AddrA, AddrP>>} :
    /\ steps < MaxSteps
    /\ store' = moveOrSwapCell(store, p[1], p[2])
    /\ lastOp' = Op("moveOrSwapCell", p)
    /\ steps' = steps + 1

ClearCell ==
  /\ steps < MaxSteps
  /\ store' = clearCell(store, AddrA)
  /\ lastOp' = Op("clearCell", <<AddrA>>)
  /\ steps' = steps + 1

RemoveCellToInventory ==
  \E a \in {AddrA, AddrB, AddrP} :
    /\ steps < MaxSteps
    /\ store' = removeCellToInventory(store, a)
    /\ lastOp' = Op("removeCellToInventory", <<a>>)
    /\ steps' = steps + 1

RemoveIngredientRefFromCell ==
  \E p \in {<<AddrA, 0>>, <<AddrA, 2>>} :
    /\ steps < MaxSteps
    /\ store' = removeIngredientRefFromCell(store, p[1], p[2])
    /\ lastOp' = Op("removeIngredientRefFromCell", p)
    /\ steps' = steps + 1

DuplicateCell ==
  /\ steps < MaxSteps
  /\ store' = duplicateCell(store, AddrA, AddrB)
  /\ lastOp' = Op("duplicateCell", <<AddrA, AddrB>>)
  /\ steps' = steps + 1

MakeLeftovers ==
  \E a \in {AddrA, AddrC, AddrP} :
    /\ steps < MaxSteps
    /\ store' = makeLeftovers(store, a)
    /\ lastOp' = Op("makeLeftovers", <<a>>)
    /\ steps' = steps + 1

SetCellServings ==
  \E p \in {<<AddrA, 4 * Unit>>, <<AddrA, 2 * Unit>>, <<AddrA, 50>>, <<AddrP, 350>>} :
    /\ steps < MaxSteps
    /\ store' = setCellServings(store, p[1], p[2])
    /\ lastOp' = Op("setCellServings", p)
    /\ steps' = steps + 1

SaveCellAsMeal ==
  \E p \in {<<AddrA, "Bowl">>, <<AddrA, " ">>} :
    /\ steps < MaxSteps
    /\ store' = saveCellAsMeal(store, p[1], p[2])
    /\ lastOp' = Op("saveCellAsMeal", p)
    /\ steps' = steps + 1

IngredientInput(name, category, count, servingsPerCount, pinned, notes) ==
  [name |-> name, category |-> category, count |-> count,
   servingsPerCount |-> servingsPerCount, pinned |-> pinned, notes |-> notes]

AddOrMergeIngredient ==
  \E input \in {IngredientInput("Rice", UNDEF, 150, NoNumber, UNDEF, UNDEF),
                IngredientInput("tofu", "Frozen", -5 * Unit, 0, BoolT, "firm")} :
    /\ steps < MaxSteps
    /\ store' = addOrMergeIngredient(store, input)
    /\ lastOp' = Op("addOrMergeIngredient", <<input>>)
    /\ steps' = steps + 1

UpdateIngredient ==
  \E updates \in {[count |-> -5 * Unit], [servingsPerCount |-> 0, notes |-> "x"]} :
    /\ steps < MaxSteps
    /\ store' = updateIngredient(store, "i1", updates)
    /\ lastOp' = Op("updateIngredient", <<"i1", updates>>)
    /\ steps' = steps + 1

AdjustIngredientCount ==
  \E delta \in {-5 * Unit, 150} :
    /\ steps < MaxSteps
    /\ store' = adjustIngredientCount(store, "i1", delta)
    /\ lastOp' = Op("adjustIngredientCount", <<"i1", delta>>)
    /\ steps' = steps + 1

DeleteIngredient ==
  /\ steps < MaxSteps
  /\ store' = deleteIngredient(store, "i1")
  /\ lastOp' = Op("deleteIngredient", <<"i1">>)
  /\ steps' = steps + 1

ToggleIngredientPinned ==
  /\ steps < MaxSteps
  /\ store' = toggleIngredientPinned(store, "i2")
  /\ lastOp' = Op("toggleIngredientPinned", <<"i2">>)
  /\ steps' = steps + 1

ClearInventory ==
  /\ steps < MaxSteps
  /\ store' = clearInventory(store)
  /\ lastOp' = Op("clearInventory", <<>>)
  /\ steps' = steps + 1

ClearCurrentWeekAndRestoreInventory ==
  /\ steps < MaxSteps
  /\ store' = clearCurrentWeekAndRestoreInventory(store)
  /\ lastOp' = Op("clearCurrentWeekAndRestoreInventory", <<>>)
  /\ steps' = steps + 1

Draft(name, category, count) == [name |-> name, category |-> category, count |-> count]

ReceiptBatches ==
  {<<Draft("Egg", "Dairy", 12 * Unit)>>,
   <<Draft("eggs", "Dairy", Unit)>>,
   <<Draft(" EGG", "Dairy", Unit)>>}

MergeReceiptItems ==
  \E items \in ReceiptBatches :
    /\ steps < MaxSteps
    /\ store' = mergeReceiptItems(store, items)
    /\ lastOp' = Op("mergeReceiptItems", <<items>>)
    /\ steps' = steps + 1

\* A backup written by an older version, for week 1: dinner of day 0 is a flat cell (a
\* slot without servings), lunch of day 1 a per-profile cell for p2 alone, dinner of day
\* 6 a per-profile cell for p1 with a null entry for p2.
LegacyPayload ==
  [ingredients |-> <<>>, meals |-> <<>>, profiles |-> InitProfiles,
   weekPlans |->
     (1 :> [createEmptyWeekPlan(1) EXCEPT
              !.grid["dinner"][0] =
                 Slot(UNDEF, "Soup", <<Ref("i2", "rice", 2 * Unit)>>, NoNumber, UNDEF, UNDEF),
              !.grid["lunch"][1] =
                 ("p2" :> Slot(UNDEF, "Salad", <<Ref(UNDEF, "penne", Unit)>>, 3 * Unit, UNDEF, UNDEF)),
              !.grid["dinner"][6] =
                 ("p1" :> Slot(UNDEF, "Toast", <<>>, Unit, UNDEF, UNDEF) @@ "p2" :> NULL)]),
   currentWeekStartDate |-> 1]

\* A backup file: one without meals, one whose only ingredient has a negative count
\* and no servingsPerCount, with no profiles and an empty plan for week 1, and one of an
\* older version.
Payloads ==
  {[ingredients |-> <<>>, weekPlans |-> <<>>, currentWeekStartDate |-> 1],
   [ingredients |-> <<Ingredient("x1", "Egg", "Dairy", -2 * Unit, NoNumber, UNDEF, UNDEF)>>,
    meals |-> <<>>, profiles |-> <<>>,
    weekPlans |-> (1 :> createEmptyWeekPlan(1)), currentWeekStartDate |-> 1],
   LegacyPayload}

ImportState ==
  \E payload \in Payloads :
    /\ steps < MaxSteps
    /\ store' = importState(store, payload)
    /\ lastOp' = Op("importState", <<payload>>)
    /\ steps' = steps + 1

ResetDemoData ==
  /\ steps < MaxSteps
  /\ store' = resetDemoData(store)
  /\ lastOp' = Op("resetDemoData", <<>>)
  /\ steps' = steps + 1

ShiftWeek ==
  \E delta \in {-1, 1} :
    /\ steps < MaxSteps
    /\ store' = shiftWeek(store, delta)
    /\ lastOp' = Op("shiftWeek", <<delta>>)
    /\ steps' = steps + 1

SetWeek ==
  /\ steps < MaxSteps
  /\ store' = setWeek(store, Today)
  /\ lastOp' = Op("setWeek", <<Today>>)
  /\ steps' = steps + 1

SetInventorySort ==
  /\ steps < MaxSteps
  /\ store' = setInventorySort(store, "expiry")
  /\ lastOp' = Op("setInventorySort", <<"expiry">>)
  /\ steps' = steps + 1

AddProfile ==
  \E name \in {"Dana", " "} :
    /\ steps < MaxSteps
    /\ store' = addProfile(store, name)
    /\ lastOp' = Op("addProfile", <<name>>)
    /\ steps' = steps + 1

UpdateProfile ==
  /\ steps < MaxSteps
  /\ store' = updateProfile(store, "p1", [name |-> "Dana"])
  /\ lastOp' = Op("updateProfile", <<"p1">>)
  /\ steps' = steps + 1

DeleteProfile ==
  /\ steps < MaxSteps
  /\ store' = deleteProfile(store, "p1")
  /\ lastOp' = Op("deleteProfile", <<"p1">>)
  /\ steps' = steps + 1

AddCustomCategory ==
  \E category \in {"Frozen", "dairy "} :
    /\ steps < MaxSteps
    /\ store' = addCustomCategory(store, category)
    /\ lastOp' = Op("addCustomCategory", <<category>>)
    /\ steps' = steps + 1

MealInput(name, lines, servingsDefault, pinned) ==
  [name |-> name, ingredients |-> lines, servingsDefault |-> servingsDefault, pinned |-> pinned]

AddMeal ==
  LET input == MealInput("Bowl", <<MealLine("chicken", UNDEF, NoNumber)>>, 4 * Unit, BoolT)
  IN /\ steps < MaxSteps
     /\ store' = addMeal(store, input)
     /\ lastOp' = Op("addMeal", <<input>>)
     /\ steps' = steps + 1

UpdateMeal ==
  /\ steps < MaxSteps
  /\ store' = updateMeal(store, "m1", [servingsDefault |-> 0])
  /\ lastOp' = Op("updateMeal", <<"m1">>)
  /\ steps' = steps + 1

DeleteMeal ==
  /\ steps < MaxSteps
  /\ store' = deleteMeal(store, "m1")
  /\ lastOp' = Op("deleteMeal", <<"m1">>)
  /\ steps' = steps + 1

ToggleMealPinned ==
  \E id \in {"m1", "m2"} :
    /\ steps < MaxSteps
    /\ store' = toggleMealPinned(store, id)
    /\ lastOp' = Op("toggleMealPinned", <<id>>)
    /\ steps' = steps + 1

MovePinnedMeal ==
  \E direction \in {"left", "right"} :
    /\ steps < MaxSteps
    /\ store' = movePinnedMeal(store, "m1", direction)
    /\ lastOp' = Op("movePinnedMeal", <<"m1", direction>>)
    /\ steps' = steps + 1

Next ==
  \/ Undo
  \/ Redo
  \/ DropIngredientToCell
  \/ DropMealToCell
  \/ MoveOrSwapCell
  \/ ClearCell
  \/ RemoveCellToInventory
  \/ RemoveIngredientRefFromCell
  \/ DuplicateCell
  \/ MakeLeftovers
  \/ SetCellServings
  \/ SaveCellAsMeal
  \/ AddOrMergeIngredient
  \/ UpdateIngredient
  \/ AdjustIngredientCount
  \/ DeleteIngredient
  \/ ToggleIngredientPinned
  \/ ClearInventory
  \/ ClearCurrentWeekAndRestoreInventory
  \/ MergeReceiptItems
  \/ ImportState
  \/ ResetDemoData
  \/ ShiftWeek
  \/ SetWeek
  \/ SetInventorySort
  \/ AddProfile
  \/ UpdateProfile
  \/ DeleteProfile
  \/ AddCustomCategory
  \/ AddMeal
  \/ UpdateMeal
  \/ DeleteMeal
  \/ ToggleMealPinned
  \/ MovePinnedMeal

Spec == Init /\ [][Next]_vars

\* ------------------------------------------------------------------------
\* Properties
\* ------------------------------------------------------------------------
\* The slot of the displayed week at an address, and an ingredient's count.
slotAt(s, address) == getSlot(currentPlan(s), address)

countOf(s, ingredientId) ==
  LET HasId(item) == item.id = ingredientId
  IN s.ingredients[findIndex(s.ingredients, HasId)].count

hasIngredient(s, ingredientId) == \E i \in 1..Len(s.ingredients) : s.ingredients[i].id = ingredientId

RECURSIVE dropIngredientTimes(_, _, _, _)
\* k further drops of the ingredient into the slot
dropIngredientTimes(s, address, ingredientId, k) ==
  IF k = 0 THEN s
  ELSE dropIngredientTimes(dropIngredientToCell(s, address, ingredientId), address, ingredientId, k - 1)

\* The commands that go through commitWithHistory
HistoryCommitting ==
  {"dropIngredientToCell", "dropMealToCell", "moveOrSwapCell", "clearCell",
   "removeCellToInventory", "removeIngredientRefFromCell", "duplicateCell", "makeLeftovers",
   "setCellServings", "saveCellAsMeal", "addOrMergeIngredient", "updateIngredient",
   "adjustIngredientCount", "deleteIngredient", "toggleIngredientPinned", "clearInventory",
   "clearCurrentWeekAndRestoreInventory", "mergeReceiptItems", "importState", "resetDemoData",
   "addProfile", "updateProfile", "deleteProfile", "addCustomCategory", "addMeal",
   "updateMeal", "deleteMeal", "toggleMealPinned", "movePinnedMeal"}

\* C1 (Conservation): for an ingredient of the ledger and an empty slot, one or more
\* dropIngredient calls of that ingredient into the slot followed by removeToInventory on
\* the slot leave the ingredient's count within 0.01 of its count before the first drop,
\* and the slot empty.
C1_Conservation ==
  [][(/\ lastOp'.name = "dropIngredientToCell"
      /\ hasIngredient(store, lastOp'.args[2])
      /\ slotAt(store, lastOp'.args[1]) = NULL)
     => \A k \in 0..(MaxDrops - 1) :
          LET address == lastOp'.args[1]
              id == lastOp'.args[2]
              after == removeCellToInventory(dropIngredientTimes(store', address, id, k), address)
          IN /\ Abs(countOf(after, id) - countOf(store, id)) <= 1
             /\ slotAt(after, address) = NULL]_vars

\* C2 (Undo/redo inverse): after a history-committing command, undo followed by redo gives
\* back the state the command produced, in every snapshot field and in both stacks; this
\* includes a past stack that is at HISTORY_LIMIT.
C2_UndoRedoInverse ==
  (lastOp.name \in HistoryCommitting /\ Len(store.past) > 0) => redo(undo(store)) = store

\* A command committed on a full history: the oldest entry was dropped.
C2_Witness ==
  /\ lastOp.name = "clearCell"
  /\ Len(store.past) = HISTORY_LIMIT
  /\ store.future = <<>>
  /\ Today \in DOMAIN store.weekPlans
  /\ Len(undo(store).past) = HISTORY_LIMIT - 1

\* C3 (Undo exact inverse): a committed command followed by undo shows the snapshot fields
\* of the state before the command, puts the command's result on top of the future stack
\* and takes exactly the last entry off the past stack; undo with an empty past and redo
\* with an empty future change nothing.
C3_UndoExactInverse ==
  [][/\ (lastOp'.name \in HistoryCommitting /\ store' # store)
          => LET undone == undo(store')
             IN /\ snapshotFromState(undone) = snapshotFromState(store)
                /\ Len(undone.future) >= 1
                /\ undone.future[1] = snapshotFromState(store')
                /\ undone.past = SubSeq(store'.past, 1, Len(store'.past) - 1)
                /\ Len(store.past) < HISTORY_LIMIT => undone.past = store.past
     /\ (lastOp'.name = "undo" /\ Len(store.past) = 0) => store' = store
     /\ (lastOp'.name = "redo" /\ Len(store.future) = 0) => store' = store]_vars

\* removeToInventory was the first command and it committed; undo gives the slot back.
C3_Witness ==
  /\ lastOp.name = "removeCellToInventory"
  /\ steps = 1
  /\ Len(store.past) = 1
  /\ slotAt(store, lastOp.args[1]) = NULL
  /\ slotAt(undo(store), lastOp.args[1]) # NULL

\* C4 as written (Swap symmetry): for distinct addresses A and B with A populated, B
\* populated or empty, moveOrSwap(A, B) twice restores both slots and leaves every count
\* unchanged.
C4_SwapSymmetry ==
  [][(/\ lastOp'.name = "moveOrSwapCell"
      /\ ~sameAddress(lastOp'.args[1], lastOp'.args[2])
      /\ slotAt(store, lastOp'.args[1]) # NULL)
     => LET twice == moveOrSwapCell(store', lastOp'.args[1], lastOp'.args[2])
        IN /\ slotAt(twice, lastOp'.args[1]) = slotAt(store, lastOp'.args[1])
           /\ slotAt(twice, lastOp'.args[2]) = slotAt(store, lastOp'.args[2])
           /\ twice.ingredients = store.ingredients]_vars

\* C4 amended: for distinct addresses A and B that are both populated, moveOrSwap(A, B)
\* twice restores both slots to their original contents and leaves every ingredient count
\* unchanged.
C4_SwapSymmetryPopulated ==
  [][(/\ lastOp'.name = "moveOrSwapCell"
      /\ ~sameAddress(lastOp'.args[1], lastOp'.args[2])
      /\ slotAt(store, lastOp'.args[1]) # NULL
      /\ slotAt(store, lastOp'.args[2]) # NULL)
     => LET twice == moveOrSwapCell(store', lastOp'.args[1], lastOp'.args[2])
        IN /\ slotAt(store', lastOp'.args[1]) = slotAt(store, lastOp'.args[2])
           /\ slotAt(store', lastOp'.args[2]) = slotAt(store, lastOp'.args[1])
           /\ slotAt(twice, lastOp'.args[1]) = slotAt(store, lastOp'.args[1])
           /\ slotAt(twice, lastOp'.args[2]) = slotAt(store, lastOp'.args[2])
           /\ twice.ingredients = store.ingredients]_vars

\* Two populated slots with different contents were exchanged.
C4_Witness ==
  /\ lastOp.name = "moveOrSwapCell"
  /\ slotAt(store, lastOp.args[1]) # NULL
  /\ slotAt(store, lastOp.args[2]) # NULL
  /\ slotAt(store, lastOp.args[1]) # slotAt(store, lastOp.args[2])
  /\ Len(store.past) >= 1

\* C5 (dropMeal into an empty slot): the slot's servings become the meal's default serving
\* count, every meal line yields a ref whose qty is the line's qty, and every matched
\* ingredient is consumed by line qty / servingsPerCount, rounded, clamped at 0.
C5_DropMealDefaultServings ==
  [][(/\ lastOp'.name = "dropMealToCell"
      /\ slotAt(store, lastOp'.args[1]) = NULL
      /\ \E m \in 1..Len(store.meals) : store.meals[m].id = lastOp'.args[2])
     => LET HasId(item) == item.id = lastOp'.args[2]
            meal == store.meals[findIndex(store.meals, HasId)]
            slot == slotAt(store', lastOp'.args[1])
        IN /\ slot # NULL
           /\ slot.servings = meal.servingsDefault
           /\ Len(slot.ingredientRefs) = Len(meal.ingredients)
           /\ \A j \in 1..Len(meal.ingredients) :
                /\ slot.ingredientRefs[j].qty = meal.ingredients[j].qty
                /\ \A i \in 1..Len(store.ingredients) :
                     normalizeName(store.ingredients[i].name) = normalizeName(meal.ingredients[j].name)
                       => store'.ingredients[i].count =
                            roundCount(FracMax0(FracAdd(Frac(store.ingredients[i].count, 1),
                              FracNeg(servingsToCountDelta(meal.ingredients[j].qty,
                                        store.ingredients[i].servingsPerCount)))))]_vars

\* The total qty of the refs of a list that resolve to an ingredient: by id when the ref
\* is bound, by canonical name otherwise.
qtyResolvingTo(refs, ingredient) ==
  LET Match(ref) ==
        \/ Truthy(ref.ingredientId) /\ ref.ingredientId = ingredient.id
        \/ ~Truthy(ref.ingredientId) /\ normalizeName(ref.name) = normalizeName(ingredient.name)
      matching == {i \in 1..Len(refs) : Match(refs[i])}
      RECURSIVE Sum(_)
      Sum(S) == IF S = {} THEN 0
                ELSE LET i == CHOOSE i \in S : TRUE IN refs[i].qty + Sum(S \ {i})
  IN Sum(matching)

\* C6 (dropMeal onto a populated slot): every ingredient's count becomes its prior count
\* plus the stock equivalent of the old refs resolving to it minus that of the new refs
\* resolving to it, clamped at 0 (to the ledger's two decimals); the slot then holds only
\* the new meal's refs; and dropping the same meal once more leaves the ledger unchanged.
C6_OverwriteRestoresThenConsumes ==
  [][(/\ lastOp'.name = "dropMealToCell"
      /\ slotAt(store, lastOp'.args[1]) # NULL
      /\ \E m \in 1..Len(store.meals) : store.meals[m].id = lastOp'.args[2])
     => LET HasId(item) == item.id = lastOp'.args[2]
            meal == store.meals[findIndex(store.meals, HasId)]
            old == slotAt(store, lastOp'.args[1])
            new == slotAt(store', lastOp'.args[1])
            again == dropMealToCell(store', lastOp'.args[1], lastOp'.args[2])
        IN /\ \A i \in 1..Len(store.ingredients) :
                LET ingredient == store.ingredients[i]
                    ideal == FracMax0(FracAdd(Frac(ingredient.count, 1),
                               servingsToCountDelta(
                                 qtyResolvingTo(old.ingredientRefs, ingredient)
                                   - qtyResolvingTo(new.ingredientRefs, ingredient),
                                 ingredient.servingsPerCount)))
                IN Abs(store'.ingredients[i].count * ideal.d - ideal.n) <= ideal.d
           /\ new.mealId = meal.id
           /\ Len(new.ingredientRefs) = Len(meal.ingredients)
           /\ \A j \in 1..Len(meal.ingredients) :
                new.ingredientRefs[j].name = meal.ingredients[j].name
           /\ again.ingredients = store'.ingredients]_vars

\* C7 (count >= 0): in every reachable state every ingredient's count is at least 0.
C7_CountNonNegative ==
  \A i \in 1..Len(store.ingredients) : store.ingredients[i].count >= 0

\* The ingredients of a ledger whose canonical name is one of the given ones.
namedAmong(s, names) ==
  {i \in 1..Len(s.ingredients) :
     \E n \in names : normalizeName(s.ingredients[i].name) = normalizeName(n)}

\* C8 as written (Merge idempotence): from a ledger with no egg ingredient, merging
\* [{Egg, 12}] and then [{eggs, 1}] leaves exactly one ingredient for it, named "Egg",
\* with count 13.
C8_MergeIdempotence ==
  [][(/\ lastOp'.name = "mergeReceiptItems"
      /\ lastOp'.args = << <<Draft("Egg", "Dairy", 12 * Unit)>> >>
      /\ namedAmong(store, {"Egg", "eggs"}) = {})
     => LET after == mergeReceiptItems(store', <<Draft("eggs", "Dairy", Unit)>>)
            eggs == namedAmong(after, {"Egg", "eggs"})
        IN /\ Cardinality(eggs) = 1
           /\ \A i \in eggs : /\ after.ingredients[i].name = "Egg"
                              /\ after.ingredients[i].count = 13 * Unit]_vars

\* C8 amended: from a ledger with no egg ingredient, merging [{Egg, 12}] and then an item
\* whose name has the same canonical form, [{" EGG", 1}], leaves exactly one ingredient
\* for it, named "Egg" (the first-seen spelling), with count 13, and the ledger has grown
\* by that one ingredient only.
C8_MergeSameCanonicalName ==
  [][(/\ lastOp'.name = "mergeReceiptItems"
      /\ lastOp'.args = << <<Draft("Egg", "Dairy", 12 * Unit)>> >>
      /\ namedAmong(store, {"Egg", "eggs"}) = {})
     => LET after == mergeReceiptItems(store', <<Draft(" EGG", "Dairy", Unit)>>)
            eggs == namedAmong(after, {"Egg", "eggs"})
        IN /\ Cardinality(eggs) = 1
           /\ \A i \in eggs : /\ after.ingredients[i].name = "Egg"
                              /\ after.ingredients[i].count = 13 * Unit
           /\ Len(after.ingredients) = Len(store.ingredients) + 1]_vars

\* Both batches were merged: one "Egg" with count 13.
C8_Witness ==
  /\ lastOp.name = "mergeReceiptItems"
  /\ lastOp.args = << <<Draft(" EGG", "Dairy", Unit)>> >>
  /\ steps = 2
  /\ Cardinality(namedAmong(store, {"Egg"})) = 1
  /\ \E i \in namedAmong(store, {"Egg"}) :
       store.ingredients[i].name = "Egg" /\ store.ingredients[i].count = 13 * Unit

\* C9 (Leftover boundary): makeLeftovers on day 6 leaves the whole state unchanged; on a
\* populated slot of day 0..5 it writes a copy of the slot with isLeftovers = true into
\* lunch of day + 1 for the same target, overwriting what was there, and leaves the source
\* slot and every ingredient count unchanged.
C9_LeftoverBoundary ==
  [][lastOp'.name = "makeLeftovers"
     => LET address == lastOp'.args[1]
            target == Address("lunch", address.day + 1, address.targetType, address.profileId)
        IN /\ address.day = 6 => store' = store
           /\ (address.day \in 0..5 /\ slotAt(store, address) # NULL)
                => /\ slotAt(store', target) = [slotAt(store, address) EXCEPT !.isLeftovers = BoolT]
                   /\ slotAt(store', address) = slotAt(store, address)
                   /\ store'.ingredients = store.ingredients]_vars

\* Leftovers of dinner of day 0 were written over a populated lunch of day 1.
C9_Witness ==
  /\ lastOp.name = "makeLeftovers"
  /\ lastOp.args[1] = AddrA
  /\ steps = 2
  /\ Len(store.past) = 2
  /\ Today \in DOMAIN store.past[2].weekPlans
  /\ getSlot(store.past[2].weekPlans[Today], AddrB) # NULL
  /\ slotAt(store, AddrA) # NULL
  /\ slotAt(store, AddrB) = [slotAt(store, AddrA) EXCEPT !.isLeftovers = BoolT]

\* C10 (Rescale correctness): setServings(address, n) on a populated slot with previous
\* servings p sets servings to max(1, floor(n)), sets every ref qty to
\* max(0.01, round2(qty * servings / p)), and changes every resolved ingredient's count
\* by -(newQty - oldQty) / servingsPerCount, rounded, clamped at 0.
C10_RescaleCorrectness ==
  [][(lastOp'.name = "setCellServings" /\ slotAt(store, lastOp'.args[1]) # NULL)
     => LET old == slotAt(store, lastOp'.args[1])
            new == slotAt(store', lastOp'.args[1])
            servings == Unit * Max(1, MathFloor(lastOp'.args[2]))
        IN /\ new.servings = servings
           /\ Len(new.ingredientRefs) = Len(old.ingredientRefs)
           /\ \A j \in 1..Len(old.ingredientRefs) :
                new.ingredientRefs[j].qty =
                  Max(1, MathRound(Frac(old.ingredientRefs[j].qty * servings, old.servings)))
           /\ \A i \in 1..Len(store.ingredients) :
                LET ingredient == store.ingredients[i]
                    net == qtyResolvingTo(new.ingredientRefs, ingredient)
                             - qtyResolvingTo(old.ingredientRefs, ingredient)
                IN store'.ingredients[i].count =
                     roundCount(FracMax0(FracAdd(Frac(ingredient.count, 1),
                       FracNeg(servingsToCountDelta(net, ingredient.servingsPerCount)))))]_vars

\* C11 (History cap): a state-changing command of the history manager appends exactly one
\* snapshot of the pre-command state to the past stack, dropping the oldest entry first
\* when the stack is full, and empties the future stack; the past stack never holds more
\* than HISTORY_LIMIT snapshots and redo right after the command changes nothing.
C11_HistoryCap ==
  [][/\ (lastOp'.name \in HistoryCommitting /\ store' # store)
          => /\ store'.past =
                  Append(IF Len(store.past) < HISTORY_LIMIT THEN store.past ELSE Tail(store.past),
                         snapshotFromState(store))
             /\ store'.future = <<>>
             /\ redo(store') = store'
     /\ Len(store'.past) <= HISTORY_LIMIT]_vars

\* The second command in a row committed on a full history: the stack is still full and
\* its newest entry is the state the command found.
C11_Witness ==
  /\ lastOp.name = "addCustomCategory"
  /\ steps = 2
  /\ Len(store.past) = HISTORY_LIMIT
  /\ store.future = <<>>
  /\ store.customCategories # <<>>
  /\ store.past[HISTORY_LIMIT].customCategories = <<>>

hasMeal(s, mealId) == \E i \in 1..Len(s.meals) : s.meals[i].id = mealId

\* C12 (No-op on invalid input): a command given an unknown ingredient id or meal id,
\* makeLeftovers with day >= 6, moveOrSwap with the source as its target, and duplicate,
\* removeToInventory and makeLeftovers on an empty source slot leave the entire state
\* unchanged, the past and future stacks included.
C12_NoOpOnInvalidInput ==
  [][/\ (\/ /\ lastOp'.name = "dropIngredientToCell"
            /\ ~hasIngredient(store, lastOp'.args[2])
         \/ /\ lastOp'.name = "dropMealToCell"
            /\ ~hasMeal(store, lastOp'.args[2])
         \/ /\ lastOp'.name \in {"updateIngredient", "adjustIngredientCount",
                                 "deleteIngredient", "toggleIngredientPinned"}
            /\ ~hasIngredient(store, lastOp'.args[1])
         \/ /\ lastOp'.name \in {"updateMeal", "deleteMeal", "toggleMealPinned"}
            /\ ~hasMeal(store, lastOp'.args[1])
         \/ /\ lastOp'.name = "makeLeftovers"
            /\ lastOp'.args[1].day >= 6
         \/ /\ lastOp'.name \in {"duplicateCell", "removeCellToInventory", "makeLeftovers"}
            /\ slotAt(store, lastOp'.args[1]) = NULL)
          => store' = store
     /\ \A address \in {AddrA, AddrP} : moveOrSwapCell(store, address, address) = store]_vars

\* Backup files that pass the shape check and give no profile: the list is left out, or empty.
ProfilelessPayloads ==
  {[ingredients |-> <<>>, meals |-> <<>>, weekPlans |-> (1 :> createEmptyWeekPlan(1)),
    currentWeekStartDate |-> 1],
   [ingredients |-> <<>>, meals |-> <<>>, profiles |-> <<>>,
    weekPlans |-> (1 :> createEmptyWeekPlan(1)), currentWeekStartDate |-> 1]}

\* C13 (Profiles non-empty): every reachable state has at least one profile; deleteProfile
\* when exactly one profile exists leaves the state unchanged, and importState of a backup
\* with an empty or missing profile list, wherever a further command can be issued, still
\* yields profiles.
C13_ProfilesNonEmpty ==
  /\ Len(store.profiles) >= 1
  /\ Len(store.profiles) = 1
       => \A id \in {store.profiles[1].id, "p1", "p2"} : deleteProfile(store, id) = store
  /\ steps < MaxSteps
       => \A payload \in ProfilelessPayloads :
            Len(importState(store, payload).profiles) >= 1

\* The only profile was asked to be deleted and is still there.
C13_Witness ==
  /\ lastOp.name = "deleteProfile"
  /\ steps = 1
  /\ Len(store.profiles) = 1
  /\ store.profiles[1].id = lastOp.args[1]

\* ------------------------------------------------------------------------
\* C14

\* No grid position of the plan holds a cell whose family slot is null and whose
\* profile slots are all null or absent.
planNormalized(plan) ==
  \A mt \in MEAL_TYPES : \A d \in DOMAIN plan.grid[mt] :
    LET cell == plan.grid[mt][d]
    IN cell # NULL => (cell.family # NULL \/ hasAnySlot(cell.profiles))

\* Backup files whose week holds cells without a populated slot: a {family, profiles}
\* cell with a null family and a null profile entry, and an older per-profile cell whose
\* only entry is null.
EmptyCellPayloads ==
  {[ingredients |-> <<>>, meals |-> <<>>, profiles |-> InitProfiles,
    weekPlans |-> (1 :> [createEmptyWeekPlan(1) EXCEPT !.grid["dinner"][0] = rawCell]),
    currentWeekStartDate |-> 1] :
     rawCell \in {[family |-> NULL, profiles |-> ("p1" :> NULL)], ("p1" :> NULL)}}

\* C14: in every reachable state every week plan is normalized (a cell with no
\* populated slot is stored as null); emptying any slot of the displayed week with
\* setSlot(null), and importing a backup whose cell has no populated slot wherever a
\* further command can be issued, store null at a position that is left without a
\* populated slot.
C14_CellNormalization ==
  /\ \A k \in DOMAIN store.weekPlans : planNormalized(store.weekPlans[k])
  /\ \A address \in {AddrA, AddrB, AddrP, AddrQ} :
       LET plan == setSlot(currentPlan(store), address, NULL)
           cell == getCell(plan, address)
       IN /\ getSlot(plan, address) = NULL
          /\ cell # NULL => (cell.family # NULL \/ hasAnySlot(cell.profiles))
  /\ steps < MaxSteps
       => \A payload \in EmptyCellPayloads :
            importState(store, payload).weekPlans[1].grid["dinner"][0] = NULL

\* Removing the only ingredient of the only populated slot of dinner on day 0 left the
\* position null.
C14_Witness ==
  /\ lastOp.name = "removeIngredientRefFromCell"
  /\ Len(store.past) >= 1
  /\ LET before == store.past[Len(store.past)]
         cell == IF before.currentWeekStartDate \in DOMAIN before.weekPlans
                   THEN before.weekPlans[before.currentWeekStartDate].grid["dinner"][0]
                   ELSE NULL
     IN /\ cell # NULL
        /\ cell.family # NULL
        /\ Len(cell.family.ingredientRefs) = 1
        /\ ~hasAnySlot(cell.profiles)
  /\ getCell(currentPlan(store), AddrA) = NULL

\* ------------------------------------------------------------------------
\* C15

\* handleExportJson: the payload written to the backup file and parsed back by
\* handleImportJson.  JSON keeps every value the store holds (strings, finite numbers,
\* null slots; an absent optional field stays absent).
exportPayload(s) ==
  [ingredients |-> s.ingredients, meals |-> s.meals, profiles |-> s.profiles,
   pinnedMealIds |-> s.pinnedMealIds, weekPlans |-> s.weekPlans,
   currentWeekStartDate |-> s.currentWeekStartDate]

\* The backup of a planned week, filed under week 1.
BackupPayload ==
  [exportPayload(InitStore(4 * Unit, Unit, PlannedWeek(Unit))) EXCEPT
     !.weekPlans = (1 :> [PlannedWeek(Unit) EXCEPT !.weekStartDate = 1]),
     !.currentWeekStartDate = 1]

\* C15: importing a backup that lacks ingredients, meals, weekPlans or
\* currentWeekStartDate changes nothing, history included; importing a complete backup
\* puts the backup's ingredients, meals, profiles, pinned meals, week plans and displayed
\* week in the store in one commit (one snapshot of the store as it was).  Both are
\* checked on a planned-week backup wherever a further command can be issued, the second
\* also on the backup that was imported last.
C15_ImportAllOrNothing ==
  /\ steps < MaxSteps
       => \A field \in PayloadRequired :
            importState(store, [k \in DOMAIN BackupPayload \ {field} |-> BackupPayload[k]])
              = store
  /\ steps < MaxSteps =>
     LET next == importState(store, BackupPayload)
     IN /\ next.ingredients = BackupPayload.ingredients
        /\ next.meals = BackupPayload.meals
        /\ next.profiles = BackupPayload.profiles
        /\ next.pinnedMealIds = BackupPayload.pinnedMealIds
        /\ next.weekPlans = BackupPayload.weekPlans
        /\ next.currentWeekStartDate = BackupPayload.currentWeekStartDate
        /\ next.past = Append(IF Len(store.past) < HISTORY_LIMIT THEN store.past
                              ELSE Tail(store.past),
                              snapshotFromState(store))
  /\ (lastOp.name = "importState" /\ PayloadRequired \subseteq DOMAIN lastOp.args[1])
       => LET payload == lastOp.args[1]
          IN /\ Len(store.ingredients) = Len(payload.ingredients)
             /\ \A i \in 1..Len(payload.ingredients) :
                  /\ store.ingredients[i].id = payload.ingredients[i].id
                  /\ store.ingredients[i].count = payload.ingredients[i].count
             /\ store.meals = payload.meals
             /\ Len(store.profiles) >= 1
             /\ store.pinnedMealIds = <<>>
             /\ DOMAIN store.weekPlans = DOMAIN payload.weekPlans
             /\ store.currentWeekStartDate = payload.currentWeekStartDate
             /\ Len(store.past) >= 1

\* A complete backup was imported over a store that had meals: the store now shows the
\* backup's week, its one ingredient and no meals.
C15_Witness ==
  /\ lastOp.name = "importState"
  /\ PayloadRequired \subseteq DOMAIN lastOp.args[1]
  /\ store.currentWeekStartDate = 1
  /\ Len(store.ingredients) = 1
  /\ store.ingredients[1].id = "x1"
  /\ store.meals = <<>>
  /\ store.past[Len(store.past)].meals # <<>>

\* ------------------------------------------------------------------------
\* C16

\* C16: moveOrSwapCell, clearCell, duplicateCell, makeLeftovers and saveCellAsMeal leave
\* the ingredient list as it was, record for record; saveCellAsMeal also leaves every
\* week plan as it was.
C16_LedgerFrame ==
  [][/\ lastOp'.name \in {"moveOrSwapCell", "clearCell", "duplicateCell", "makeLeftovers",
                          "saveCellAsMeal"}
          => store'.ingredients = store.ingredients
     /\ lastOp'.name = "saveCellAsMeal" => store'.weekPlans = store.weekPlans]_vars

\* A populated family slot was cleared and the ingredient list is the one before the
\* command.
C16_Witness ==
  /\ lastOp.name = "clearCell"
  /\ steps = 1
  /\ store.past # <<>>
  /\ Today \in DOMAIN store.past[Len(store.past)].weekPlans
  /\ store.past[Len(store.past)].weekPlans[Today].grid["dinner"][0] # NULL
  /\ store.past[Len(store.past)].weekPlans[Today].grid["dinner"][0].family # NULL
  /\ slotAt(store, AddrA) = NULL
  /\ store.ingredients = store.past[Len(store.past)].ingredients
  /\ countOf(store, "i1") = 4 * Unit

\* ------------------------------------------------------------------------
\* C17

\* The ingredients a ref falls back to by name: those with the ref's normalized name,
\* when the ref is bound to an id that is no longer in the ledger.
fallbackFor(s, ref) ==
  IF Truthy(ref.ingredientId) /\ ~hasIngredient(s, ref.ingredientId)
    THEN {s.ingredients[j].id : j \in {j \in 1..Len(s.ingredients) :
            normalizeName(s.ingredients[j].name) = normalizeName(ref.name)}}
    ELSE {}

\* C17: when a ref of a slot is bound to an ingredient id that is gone and an ingredient
\* with the same normalized name exists, removing that ref from the slot restores the
\* ref's quantity to the name-matched ingredient, and so do removing the whole slot to
\* the inventory and clearing the week with restore.
C17_WeakReferenceFallback ==
  \A address \in {AddrA, AddrP} :
    LET slot == slotAt(store, address)
    IN slot # NULL =>
         \A i \in 1..Len(slot.ingredientRefs) :
           \A id \in fallbackFor(store, slot.ingredientRefs[i]) :
             LET ref == slot.ingredientRefs[i]
                 item == CHOOSE item \in {store.ingredients[j] : j \in 1..Len(store.ingredients)} :
                           item.id = id
             IN /\ countOf(removeIngredientRefFromCell(store, address, i - 1), id)
                     = roundCount(FracAdd(Frac(item.count, 1),
                                          servingsToCountDelta(ref.qty, item.servingsPerCount)))
                /\ countOf(removeCellToInventory(store, address), id) > item.count
                /\ countOf(clearCurrentWeekAndRestoreInventory(store), id) > item.count

\* ------------------------------------------------------------------------
\* C18

\* What merging the one draft `item` made of the ingredient list `before`: the first
\* ingredient with the draft's normalized name grew by max(1, item.count) and nothing
\* else changed; or, there being none, a new first ingredient has the draft's name and
\* category, count `created` and servingsPerCount 1, and the others follow unchanged.
mergedOne(before, after, item, created) ==
  LET same == {i \in 1..Len(before) : normalizeName(before[i].name) = normalizeName(item.name)}
  IN IF same # {}
       THEN LET found == CHOOSE i \in same : \A j \in same : i <= j
            IN after = [before EXCEPT ![found].count = @ + Max(Unit, item.count)]
       ELSE /\ Len(after) = Len(before) + 1
            /\ after[1].name = item.name
            /\ after[1].category = item.category
            /\ after[1].count = created
            /\ after[1].servingsPerCount = Unit
            /\ Tail(after) = before

\* C18 as written (Import reconciler arithmetic): a draft whose normalized name is in
\* the ledger adds max(1, count) to that ingredient; any other draft creates an
\* ingredient whose count is the draft's count, with the draft's category and
\* servingsPerCount 1; two drafts of one batch with the same normalized name end up in
\* a single ingredient.  Checked for four drafts wherever another command can be issued,
\* and on the batch that was merged last.
C18_ReceiptArithmetic ==
  LET drafts == {Draft("Egg", "Dairy", 12 * Unit), Draft(" EGG", "Other", Unit),
                 Draft("Rice", "Pantry", 0), Draft("Egg", "Dairy", 50)}
  IN /\ steps < MaxSteps => \A item \in drafts :
          mergedOne(store.ingredients, mergeReceiptItems(store, <<item>>).ingredients,
                    item, item.count)
     /\ steps < MaxSteps => \A first \in drafts : \A second \in drafts :
          (first.count >= Unit /\ normalizeName(first.name) = normalizeName(second.name))
            => LET once == mergeReceiptItems(store, <<first>>).ingredients
                   both == mergeReceiptItems(store, <<first, second>>).ingredients
               IN /\ Len(both) = Len(once)
                  /\ mergedOne(once, both, second, second.count)
     /\ lastOp.name = "mergeReceiptItems"
          => mergedOne(store.past[Len(store.past)].ingredients, store.ingredients,
                       lastOp.args[1][1], lastOp.args[1][1].count)

\* C18 amended: the same, except that a created ingredient's count is max(1, count) of
\* its draft (a draft of half an egg creates an ingredient with count 1).
C18_ReceiptArithmeticFloored ==
  LET drafts == {Draft("Egg", "Dairy", 12 * Unit), Draft(" EGG", "Other", Unit),
                 Draft("Rice", "Pantry", 0), Draft("Egg", "Dairy", 50)}
  IN /\ steps < MaxSteps => \A item \in drafts :
          mergedOne(store.ingredients, mergeReceiptItems(store, <<item>>).ingredients,
                    item, Max(Unit, item.count))
     /\ steps < MaxSteps => \A first \in drafts : \A second \in drafts :
          (first.count >= Unit /\ normalizeName(first.name) = normalizeName(second.name))
            => LET once == mergeReceiptItems(store, <<first>>).ingredients
                   both == mergeReceiptItems(store, <<first, second>>).ingredients
               IN /\ Len(both) = Len(once)
                  /\ mergedOne(once, both, second, Max(Unit, second.count))
     /\ lastOp.name = "mergeReceiptItems"
          => mergedOne(store.past[Len(store.past)].ingredients, store.ingredients,
                       lastOp.args[1][1], Max(Unit, lastOp.args[1][1].count))

\* A receipt with 12 "Egg" was merged into a ledger without eggs: a new first ingredient
\* "Egg" with count 12 and one serving per count.
C18_Witness ==
  /\ lastOp.name = "mergeReceiptItems"
  /\ lastOp.args = << <<Draft("Egg", "Dairy", 12 * Unit)>> >>
  /\ steps = 1
  /\ Len(store.ingredients) = 3
  /\ store.ingredients[1].name = "Egg"
  /\ store.ingredients[1].category = "Dairy"
  /\ store.ingredients[1].count = 12 * Unit
  /\ store.ingredients[1].servingsPerCount = Unit

\* ------------------------------------------------------------------------
\* C19

\* C19: importState of a complete backup and resetDemoData each push a snapshot of the
\* store as it was onto the past stack, keeping what the stack held (but for the oldest
\* entry of a full stack), and an undo right after gives the eight snapshot fields their
\* values from before the command.
C19_ImportResetUndoable ==
  [][(\/ lastOp'.name = "resetDemoData"
      \/ /\ lastOp'.name = "importState"
         /\ PayloadRequired \subseteq DOMAIN lastOp'.args[1])
     => /\ Len(store'.past) >= 1
        /\ store'.past[Len(store'.past)] = snapshotFromState(store)
        /\ SubSeq(store'.past, 1, Len(store'.past) - 1)
             = (IF Len(store.past) < HISTORY_LIMIT THEN store.past ELSE Tail(store.past))
        /\ \A field \in SnapshotFields : undo(store')[field] = store[field]]_vars

\* resetDemoData came second, after a command that had committed: the past stack holds
\* both snapshots and undo brings back the two-ingredient ledger.
C19_Witness ==
  /\ lastOp.name = "resetDemoData"
  /\ steps = 2
  /\ Len(store.past) = 2
  /\ Len(store.ingredients) = Len(BaseIngredientTable)
  /\ Len(undo(store).ingredients) = 2
  /\ undo(store).meals = InitMeals

\* ------------------------------------------------------------------------
\* C20

\* C20: importing the backup exported from the store gives a store whose ingredients,
\* meals, profiles, pinned meals, week plans and displayed week are those of the store it was exported from, every populated slot and
\* every ingredient count included.
C20_ExportImportRoundTrip ==
  LET payload == exportPayload(store)
      next == importState(store, payload)
  IN \A field \in DOMAIN payload : next[field] = store[field]

\* A store with 5.5 chicken, a family slot and a profile slot at dinner of day 0:
\* its backup imported into a bare store shows the same slots and the same counts.
C20_Witness ==
  /\ lastOp.name = "adjustIngredientCount"
  /\ slotAt(store, AddrA) # NULL
  /\ slotAt(store, AddrP) # NULL
  /\ hasIngredient(store, "i1")
  /\ countOf(store, "i1") = 550
  /\ LET next == importState(BareStore, exportPayload(store))
     IN /\ slotAt(next, AddrA) = slotAt(store, AddrA)
        /\ slotAt(next, AddrP) = slotAt(store, AddrP)
        /\ countOf(next, "i1") = 550
        /\ Len(next.past) = 1

\* ------------------------------------------------------------------------
\* C21

\* C21: in every reachable state weekPlans holds a plan for currentWeekStartDate; this
\* is so after shiftWeek and setWeek, which leave the plans that exist as they were, and
\* after importState of a backup whose weekPlans has no entry for its
\* currentWeekStartDate.
C21_CurrentPlanExists ==
  /\ store.currentWeekStartDate \in DOMAIN store.weekPlans
  /\ \A delta \in {0 - 1, 1} :
       LET next == shiftWeek(store, delta)
       IN /\ next.currentWeekStartDate \in DOMAIN next.weekPlans
          /\ \A k \in DOMAIN store.weekPlans : next.weekPlans[k] = store.weekPlans[k]
  /\ LET next == setWeek(store, Today)
     IN /\ next.currentWeekStartDate \in DOMAIN next.weekPlans
        /\ \A k \in DOMAIN store.weekPlans : next.weekPlans[k] = store.weekPlans[k]
  /\ LET next == importState(store, [BackupPayload EXCEPT !.currentWeekStartDate = 2])
     IN next.currentWeekStartDate \in DOMAIN next.weekPlans

\* ------------------------------------------------------------------------
\* C22

\* What dropping the ingredient `id` of `before` on `address` made of the slot and of the
\* ledger: an empty slot got servings max(1, round(servingsPerCount)); the slot has one
\* ref for the ingredient, one serving larger than it was (or of one serving), and the
\* other refs as they were; the ingredient's count is `count` and the other ingredients
\* are unchanged.
droppedOne(before, after, address, id, count) ==
  LET old == slotAt(before, address)
      new == slotAt(after, address)
      ingredient == CHOOSE item \in {before.ingredients[i] : i \in 1..Len(before.ingredients)} :
                      item.id = id
      oldRefs == IF old = NULL THEN <<>> ELSE old.ingredientRefs
      bound == {i \in 1..Len(oldRefs) : oldRefs[i].ingredientId = id}
  IN /\ new # NULL
     /\ old = NULL
          => new.servings = Unit * Max(1, MathRound(Frac(ingredient.servingsPerCount, Unit)))
     /\ old # NULL => new.servings = old.servings
     /\ Cardinality({i \in 1..Len(new.ingredientRefs) : new.ingredientRefs[i].ingredientId = id}) = 1
     /\ IF bound = {}
          THEN new.ingredientRefs = Append(oldRefs, Ref(id, ingredient.name, Unit))
          ELSE \E i \in bound : new.ingredientRefs = [oldRefs EXCEPT ![i].qty = @ + Unit]
     /\ Len(after.ingredients) = Len(before.ingredients)
     /\ \A i \in 1..Len(before.ingredients) :
          after.ingredients[i] =
            IF before.ingredients[i].id = id
              THEN [before.ingredients[i] EXCEPT !.count = count]
              ELSE before.ingredients[i]

\* C22 as written: dropIngredient of a known ingredient seeds an empty slot with
\* servings max(1, round(servingsPerCount)), adds one serving of the ingredient to the
\* slot merged into its ref (N drops into an empty slot give one ref of qty N), and
\* takes exactly 1 / servingsPerCount off the ingredient's count, clamped at 0, leaving
\* every other ingredient unchanged.
C22_DropIngredient ==
  [][(/\ lastOp'.name = "dropIngredientToCell"
      /\ hasIngredient(store, lastOp'.args[2]))
     => LET address == lastOp'.args[1]
            id == lastOp'.args[2]
            ingredient == CHOOSE item \in {store.ingredients[i] : i \in 1..Len(store.ingredients)} :
                            item.id = id
            exact == FracMax0(FracAdd(Frac(ingredient.count, 1),
                                      FracNeg(servingsToCountDelta(Unit, ingredient.servingsPerCount))))
        IN /\ countOf(store', id) * exact.d = exact.n
           /\ droppedOne(store, store', address, id, countOf(store', id))
           /\ slotAt(store, address) = NULL
                => \A k \in 1..MaxDrops :
                     slotAt(dropIngredientTimes(store, address, id, k), address).ingredientRefs
                       = <<Ref(id, ingredient.name, k * Unit)>>]_vars

\* C22 amended: the same, except that the count left is rounded to two decimals:
\* round(max(0, count - 1 / servingsPerCount)), so that a drop of an ingredient of 8
\* servings per count takes 0.12 or 0.13, not 0.125.
C22_DropIngredientRounded ==
  [][(/\ lastOp'.name = "dropIngredientToCell"
      /\ hasIngredient(store, lastOp'.args[2]))
     => LET address == lastOp'.args[1]
            id == lastOp'.args[2]
            ingredient == CHOOSE item \in {store.ingredients[i] : i \in 1..Len(store.ingredients)} :
                            item.id = id
            exact == FracMax0(FracAdd(Frac(ingredient.count, 1),
                                      FracNeg(servingsToCountDelta(Unit, ingredient.servingsPerCount))))
        IN /\ droppedOne(store, store', address, id, MathRound(exact))
           /\ slotAt(store, address) = NULL
                => \A k \in 1..MaxDrops :
                     slotAt(dropIngredientTimes(store, address, id, k), address).ingredientRefs
                       = <<Ref(id, ingredient.name, k * Unit)>>]_vars

\* The second drop of chicken (8 servings per count) into a slot that was empty: one ref
\* of qty 2, servings 8, and the count went from 4 to 3.88 to 3.76.
C22_Witness ==
  /\ lastOp.name = "dropIngredientToCell"
  /\ lastOp.args = <<AddrB, "i1">>
  /\ steps = 2
  /\ slotAt(store, AddrB) # NULL
  /\ slotAt(store, AddrB).ingredientRefs = <<Ref("i1", "chicken", 2 * Unit)>>
  /\ slotAt(store, AddrB).servings = 8 * Unit
  /\ hasIngredient(store, "i1")
  /\ countOf(store, "i1") = 376

\* ------------------------------------------------------------------------
\* C23

\* C23: duplicateCell of a populated source makes the target slot equal to the source
\* slot, restores nothing of what the target held to the ledger, leaves the source slot
\* as it was, and a later setCellServings, dropIngredientToCell or
\* removeIngredientRefFromCell on the target does not change the source slot.  The same
\* holds for a family slot copied to the profile slot of its own cell and back.
C23_DuplicateIndependent ==
  [][lastOp'.name = "duplicateCell"
       => \A pair \in {<<lastOp'.args[1], lastOp'.args[2]>>, <<AddrA, AddrP>>, <<AddrP, AddrA>>} :
            LET source == pair[1]
                target == pair[2]
                copied == duplicateCell(store, source, target)
            IN slotAt(store, source) # NULL
                 => /\ slotAt(copied, target) = slotAt(store, source)
                    /\ slotAt(copied, source) = slotAt(store, source)
                    /\ copied.ingredients = store.ingredients
                    /\ \A later \in {setCellServings(copied, target, 4 * Unit),
                                     setCellServings(copied, target, 50),
                                     dropIngredientToCell(copied, target, "i1"),
                                     dropIngredientToCell(copied, target, "i2"),
                                     removeIngredientRefFromCell(copied, target, 0),
                                     clearCell(copied, target)} :
                         slotAt(later, source) = slotAt(store, source)]_vars

\* The family slot of dinner on day 0 was copied over a lunch slot that held something
\* else: both slots are now equal and the ledger is the one before the command.
C23_Witness ==
  /\ lastOp.name = "duplicateCell"
  /\ steps = 2
  /\ slotAt(store, AddrA) # NULL
  /\ slotAt(store, AddrB) = slotAt(store, AddrA)
  /\ LET before == store.past[Len(store.past)]
     IN /\ Today \in DOMAIN before.weekPlans
        /\ before.weekPlans[Today].grid["lunch"][1] # NULL
        /\ before.weekPlans[Today].grid["lunch"][1].family # NULL
        /\ before.weekPlans[Today].grid["lunch"][1].family # slotAt(store, AddrA)
        /\ before.ingredients = store.ingredients

\* ------------------------------------------------------------------------
\* C24

\* C24: in every reachable state every populated slot has servings >= 1 and every
\* ingredient has servingsPerCount >= 0.01 when it has one; this is so whatever numbers
\* the commands are given, a backup with a slot of 0 servings or an ingredient of
\* servingsPerCount 0 included.
C24_NumericClamping ==
  LET slotsOf(cell) == {cell.family} \cup {cell.profiles[p] : p \in DOMAIN cell.profiles}
      clamped(s) ==
        /\ \A k \in DOMAIN s.weekPlans : \A mt \in MEAL_TYPES :
             \A d \in DOMAIN s.weekPlans[k].grid[mt] :
               LET cell == s.weekPlans[k].grid[mt][d]
               IN cell # NULL
                    => \A slot \in slotsOf(cell) : slot # NULL => slot.servings >= Unit
        /\ \A i \in 1..Len(s.ingredients) :
             s.ingredients[i].servingsPerCount # NoNumber
               => s.ingredients[i].servingsPerCount >= 1
  IN /\ clamped(store)
     /\ clamped(importState(store,
                  [BackupPayload EXCEPT !.ingredients[1].servingsPerCount = 0]))
     /\ clamped(importState(store,
                  [BackupPayload EXCEPT !.weekPlans[1].grid["dinner"][0].family.servings = 0]))

\* ------------------------------------------------------------------------
\* C25

\* C25: in every reachable state every populated profile slot of every week plan is
\* keyed by the id of a profile of the store; dropping an ingredient or a meal on a
\* profile address without a profileId, or with the id of no profile, creates no slot
\* and leaves the ledger as it was.
C25_ProfileSlotsKeyed ==
  /\ \A k \in DOMAIN store.weekPlans : \A mt \in MEAL_TYPES :
       \A d \in DOMAIN store.weekPlans[k].grid[mt] :
         LET cell == store.weekPlans[k].grid[mt][d]
         IN cell # NULL
              => \A p \in DOMAIN cell.profiles :
                   cell.profiles[p] # NULL
                     => \E i \in 1..Len(store.profiles) : store.profiles[i].id = p
  /\ \A profileId \in {UNDEF, "nobody"} :
       LET address == Address("lunch", 1, "profile", profileId)
       IN \A next \in {dropIngredientToCell(store, address, "i2"),
                       dropMealToCell(store, address, "m2")} :
            /\ getCell(currentPlan(next), address) = getCell(currentPlan(store), address)
            /\ next.ingredients = store.ingredients

\* ------------------------------------------------------------------------
\* C26

\* C26: addOrMergeIngredient never creates a duplicate.  When the ledger had an ingredient
\* with the input's normalized name, its length is unchanged, that ingredient's count is
\* max(0, count + input.count), the fields the input supplies are overwritten and nothing
\* else changes; when it had none, one ingredient was added, with count
\* max(0, input.count) and the input's category, base or custom.
C26_AddOrMergeNoDuplicate ==
  lastOp.name = "addOrMergeIngredient"
    => LET input == lastOp.args[1]
           before == store.past[Len(store.past)].ingredients
           after == store.ingredients
           same == {i \in 1..Len(before) :
                      normalizeName(before[i].name) = normalizeName(input.name)}
       IN IF same # {}
            THEN \E found \in same :
                   after = [before EXCEPT
                              ![found].count = Max(0, @ + input.count),
                              ![found].category =
                                 IF input.category = UNDEF THEN @ ELSE input.category,
                              ![found].servingsPerCount =
                                 IF input.servingsPerCount = NoNumber THEN @
                                 ELSE normalizeServingsPerCount(input.servingsPerCount),
                              ![found].notes = IF input.notes = UNDEF THEN @ ELSE input.notes,
                              ![found].pinned = IF input.pinned = UNDEF THEN @ ELSE input.pinned]
            ELSE /\ Len(after) = Len(before) + 1
                 /\ Tail(after) = before
                 /\ after[1].name = input.name
                 /\ after[1].count = Max(0, input.count)
                 /\ after[1].category = IF input.category = UNDEF THEN "Other" ELSE input.category

\* ------------------------------------------------------------------------
\* C27

\* C27 as written (Legacy cell upgrade): after importing the older backup every cell of
\* the plan is null or has the shape {family, profiles}; the flat cell became the family
\* slot with its refs (servings 2, having none) and no profile slots; a per-profile cell
\* became profiles with family null; and the populated slots are those of the backup,
\* none dropped and none added.
C27_LegacyUpgrade ==
  (lastOp.name = "importState" /\ lastOp.args = <<LegacyPayload>>)
    => LET raw == LegacyPayload.weekPlans[1].grid
           grid == store.weekPlans[1].grid
       IN /\ \A mt \in MEAL_TYPES : \A d \in Days :
               grid[mt][d] # NULL => DOMAIN grid[mt][d] = {"family", "profiles"}
          /\ grid["dinner"][0] =
               [family |-> [raw["dinner"][0] EXCEPT !.servings = 2 * Unit], profiles |-> <<>>]
          /\ grid["lunch"][1].family = NULL
          /\ grid["dinner"][6].family = NULL
          /\ \A position \in {<<"lunch", 1>>, <<"dinner", 6>>} :
               LET cell == grid[position[1]][position[2]]
                   rawCell == raw[position[1]][position[2]]
               IN /\ {k \in DOMAIN cell.profiles : cell.profiles[k] # NULL}
                       = {k \in DOMAIN rawCell : rawCell[k] # NULL}
                  /\ \A k \in DOMAIN rawCell : cell.profiles[k] = rawCell[k]

\* C27 amended: the same, except that a per-profile cell in which the first profile of
\* the backup (p1) has no populated slot gets one more populated slot: p1 receives a
\* copy of the cell's first populated slot.
C27_LegacyUpgradePrimaryFilled ==
  (lastOp.name = "importState" /\ lastOp.args = <<LegacyPayload>>)
    => LET raw == LegacyPayload.weekPlans[1].grid
           grid == store.weekPlans[1].grid
       IN /\ \A mt \in MEAL_TYPES : \A d \in Days :
               grid[mt][d] # NULL => DOMAIN grid[mt][d] = {"family", "profiles"}
          /\ grid["dinner"][0] =
               [family |-> [raw["dinner"][0] EXCEPT !.servings = 2 * Unit], profiles |-> <<>>]
          /\ grid["lunch"][1].family = NULL
          /\ grid["dinner"][6].family = NULL
          /\ \A position \in {<<"lunch", 1>>, <<"dinner", 6>>} :
               LET cell == grid[position[1]][position[2]]
                   rawCell == raw[position[1]][position[2]]
                   populated == {k \in DOMAIN rawCell : rawCell[k] # NULL}
               IN /\ {k \in DOMAIN cell.profiles : cell.profiles[k] # NULL}
                       = populated \cup {"p1"}
                  /\ \A k \in DOMAIN rawCell \ {"p1"} : cell.profiles[k] = rawCell[k]
                  /\ cell.profiles["p1"] =
                       IF "p1" \in populated THEN rawCell["p1"]
                       ELSE rawCell[CHOOSE k \in populated : TRUE]

\* The older backup was imported: lunch of day 1, which it held for p2 alone, now holds
\* the salad for p2 and for p1.
C27_Witness ==
  /\ lastOp.name = "importState"
  /\ lastOp.args = <<LegacyPayload>>
  /\ store.currentWeekStartDate = 1
  /\ store.weekPlans[1].grid["dinner"][0].family.servings = 2 * Unit
  /\ DOMAIN store.weekPlans[1].grid["lunch"][1].profiles = {"p1", "p2"}
  /\ store.weekPlans[1].grid["lunch"][1].profiles["p1"].adHocMealName = "Salad"

\* ------------------------------------------------------------------------
\* C28

\* C28 (deleteIngredient removes the ledger record only): after deleteIngredient(id) the
\* week plans are those of the state before, every slot and every ref bound to the
\* deleted id included; the ingredients are those of before without the record of that
\* id, in the same order and unchanged; meals and profiles are those of before.
C28_DeleteIngredientOnly ==
  lastOp.name = "deleteIngredient"
    => LET before == store.past[Len(store.past)]
           id == lastOp.args[1]
       IN /\ store.weekPlans = before.weekPlans
          /\ store.ingredients =
               SelectSeq(before.ingredients, LAMBDA ingredient : ingredient.id # id)
          /\ store.meals = before.meals
          /\ store.profiles = before.profiles

\* Chicken (i1) was deleted while the dinner of day 0 held a ref bound to it: the ledger
\* has no i1, the slot still has the ref, and rice is still in the ledger.
C28_Witness ==
  /\ lastOp.name = "deleteIngredient"
  /\ ~hasIngredient(store, "i1")
  /\ hasIngredient(store, "i2")
  /\ hasIngredient(store.past[Len(store.past)], "i1")
  /\ Today \in DOMAIN store.weekPlans
  /\ store.currentWeekStartDate = Today
  /\ store.weekPlans[Today].grid["dinner"][0] # NULL
  /\ store.weekPlans[Today].grid["dinner"][0].family # NULL
  /\ \E i \in 1..Len(store.weekPlans[Today].grid["dinner"][0].family.ingredientRefs) :
       store.weekPlans[Today].grid["dinner"][0].family.ingredientRefs[i].ingredientId = "i1"

\* ------------------------------------------------------------------------
\* C29

\* C29 (Week navigation and sort changes do not participate in history): a step of
\* shiftWeek, setWeek or setInventorySort leaves the past stack and the future stack as
\* they were, snapshot for snapshot, and leaves the ingredients, the meals, the pinned
\* meals, the profiles and every week plan that existed before unchanged.
C29_NavigationOutsideHistory ==
  [][lastOp'.name \in {"shiftWeek", "setWeek", "setInventorySort"}
       => /\ store'.past = store.past
          /\ store'.future = store.future
          /\ store'.ingredients = store.ingredients
          /\ store'.meals = store.meals
          /\ store'.pinnedMealIds = store.pinnedMealIds
          /\ store'.profiles = store.profiles
          /\ \A week \in DOMAIN store.weekPlans :
               /\ week \in DOMAIN store'.weekPlans
               /\ store'.weekPlans[week] = store.weekPlans[week]]_vars

\* After one data command the view moved to the next week: the past stack holds that one
\* snapshot, the future stack is empty, the new week has an empty plan and the planned
\* week still has its dinner of day 0.
C29_Witness ==
  /\ lastOp.name = "shiftWeek"
  /\ steps = 2
  /\ Len(store.past) = 1
  /\ store.future = <<>>
  /\ store.currentWeekStartDate = Today + 1
  /\ Today \in DOMAIN store.weekPlans
  /\ Today + 1 \in DOMAIN store.weekPlans
  /\ store.weekPlans[Today + 1] = createEmptyWeekPlan(Today + 1)
  /\ store.weekPlans[Today].grid["dinner"][0] # NULL

\* ------------------------------------------------------------------------
\* C30

\* C30 as written (Rescaling does not drift): wherever a drop or a rescale has just
\* written a slot whose servings p are a whole number >= 1 and a further command can be
\* issued, setServings(address, n)
\* followed by setServings(address, p) gives back the slot's servings and every ref of
\* the slot, for every n in 1..MaxServings, and, no count being negative, the ledger.
C30_RescaleRoundTrip ==
  (steps < MaxSteps /\ lastOp.name \in {"dropIngredientToCell", "setCellServings"})
    => LET address == lastOp.args[1]
           slot == slotAt(store, address)
       IN (slot # NULL /\ slot.servings >= Unit /\ slot.servings % Unit = 0)
            => \A n \in 1..MaxServings :
                 LET there == setCellServings(store, address, n * Unit)
                     back == setCellServings(there, address, slot.servings)
                 IN /\ slotAt(back, address).servings = slot.servings
                    /\ slotAt(back, address).ingredientRefs = slot.ingredientRefs
                    /\ (\A i \in 1..Len(store.ingredients) : store.ingredients[i].count >= 0)
                         => back.ingredients = store.ingredients

\* C30 amended: the same round trip gives back the slot's servings, as many refs as
\* before, and every ref whose quantity scaled by n / p is itself a quantity of two
\* decimals (qty * n / p is a whole number of hundredths, at least 0.01); and, no count
\* being negative, the ledger.
C30_RescaleRoundTripExact ==
  (steps < MaxSteps /\ lastOp.name \in {"dropIngredientToCell", "setCellServings"})
    => LET address == lastOp.args[1]
           slot == slotAt(store, address)
       IN (slot # NULL /\ slot.servings >= Unit /\ slot.servings % Unit = 0)
            => \A n \in 1..MaxServings :
                 LET there == setCellServings(store, address, n * Unit)
                     back == setCellServings(there, address, slot.servings)
                     after == slotAt(back, address)
                 IN /\ after.servings = slot.servings
                    /\ Len(after.ingredientRefs) = Len(slot.ingredientRefs)
                    /\ \A i \in 1..Len(slot.ingredientRefs) :
                         ((slot.ingredientRefs[i].qty * n * Unit) % slot.servings = 0
                            /\ slot.ingredientRefs[i].qty * n * Unit >= slot.servings)
                           => after.ingredientRefs[i] = slot.ingredientRefs[i]
                    /\ (\A i \in 1..Len(store.ingredients) : store.ingredients[i].count >= 0)
                         => back.ingredients = store.ingredients

\* The dinner of day 0, planned for 2 servings with 4 rice and 1 chicken, was set to 4
\* servings and back to 2: the slot is the one of the first snapshot again, after having
\* held 8 rice, and the ledger is the one of the first snapshot.
C30_Witness ==
  /\ lastOp = Op("setCellServings", <<AddrA, 2 * Unit>>)
  /\ Len(store.past) = 2
  /\ Today \in DOMAIN store.past[1].weekPlans
  /\ Today \in DOMAIN store.past[2].weekPlans
  /\ store.past[1].weekPlans[Today].grid["dinner"][0] # NULL
  /\ store.past[2].weekPlans[Today].grid["dinner"][0] # NULL
  /\ store.past[1].weekPlans[Today].grid["dinner"][0].family # NULL
  /\ store.past[2].weekPlans[Today].grid["dinner"][0].family # NULL
  /\ store.past[1].weekPlans[Today].grid["dinner"][0].family.servings = 2 * Unit
  /\ store.past[2].weekPlans[Today].grid["dinner"][0].family.servings = 4 * Unit
  /\ store.past[2].weekPlans[Today].grid["dinner"][0].family.ingredientRefs[1].qty = 8 * Unit
  /\ slotAt(store, AddrA) = store.past[1].weekPlans[Today].grid["dinner"][0].family
  /\ store.ingredients = store.past[1].ingredients

\* ------------------------------------------------------------------------
\* C31

\* C31 as written (Undo and redo do not move the displayed week): when a command other
\* than importState and resetDemoData has committed, further commands can be issued and
\* the user then shifts the week by one either way, undo gives back the week plans and the ledger of before the command
\* and leaves currentWeekStartDate at the week navigated to.
C31_UndoKeepsDisplayedWeek ==
  [][(steps' < MaxSteps
        /\ lastOp'.name \in HistoryCommitting \ {"importState", "resetDemoData"}
        /\ Len(store'.past) > 0
        /\ store'.past[Len(store'.past)] = snapshotFromState(store))
       => \A delta \in {-1, 1} :
            LET navigated == shiftWeek(store', delta)
                undone == undo(navigated)
            IN /\ undone.weekPlans = store.weekPlans
               /\ undone.ingredients = store.ingredients
               /\ undone.currentWeekStartDate = navigated.currentWeekStartDate]_vars

\* C31 amended: in the same case undo gives back the week plans and the ledger of before
\* the command and sets currentWeekStartDate to the week that was displayed when the
\* command was issued, the snapshot holding it; a redo then shows the week navigated to
\* again, with the week plans and the ledger of after the navigation.
C31_UndoRestoresSnapshotWeek ==
  [][(steps' < MaxSteps
        /\ lastOp'.name \in HistoryCommitting \ {"importState", "resetDemoData"}
        /\ Len(store'.past) > 0
        /\ store'.past[Len(store'.past)] = snapshotFromState(store))
       => \A delta \in {-1, 1} :
            LET navigated == shiftWeek(store', delta)
                undone == undo(navigated)
                redone == redo(undone)
            IN /\ undone.weekPlans = store.weekPlans
               /\ undone.ingredients = store.ingredients
               /\ undone.currentWeekStartDate = store.currentWeekStartDate
               /\ redone.currentWeekStartDate = navigated.currentWeekStartDate
               /\ redone.weekPlans = navigated.weekPlans
               /\ redone.ingredients = navigated.ingredients]_vars

\* With a history of commands issued in the current week, the view was moved to another
\* week and undo was issued: the current week is displayed again, and the snapshot on
\* top of the future stack is the one of the week navigated to.
C31_Witness ==
  /\ lastOp.name = "undo"
  /\ steps = 2
  /\ Len(store.future) = 1
  /\ store.currentWeekStartDate = Today
  /\ store.future[1].currentWeekStartDate # Today
  /\ Len(store.past) = HISTORY_LIMIT - 1

\* ------------------------------------------------------------------------
\* C32

\* C32 (The two stacks share the capacity): in every reachable state the past and the
\* future stack hold at most HISTORY_LIMIT snapshots together; and wherever a further
\* command can be issued, k undos (k up to MaxUndos and the length of the past stack)
\* lose no snapshot (the future stack grows by k, the past stack shrinks by k) and k
\* redos after them give back the state with both stacks.
C32_StacksShareCapacity ==
  /\ Len(store.past) + Len(store.future) <= HISTORY_LIMIT
  /\ steps < MaxSteps
       => LET RECURSIVE undos(_, _), redos(_, _)
              undos(s, k) == IF k = 0 THEN s ELSE undos(undo(s), k - 1)
              redos(s, k) == IF k = 0 THEN s ELSE redos(redo(s), k - 1)
          IN \A k \in 1..Min(MaxUndos, Len(store.past)) :
               LET undone == undos(store, k)
               IN /\ Len(undone.past) = Len(store.past) - k
                  /\ Len(undone.future) = Len(store.future) + k
                  /\ SubSeq(undone.future, k + 1, Len(undone.future)) = store.future
                  /\ redos(undone, k) = store

\* On a full history one undo was taken back by one redo: the past stack holds
\* HISTORY_LIMIT snapshots again and the future stack is empty.
C32_Witness ==
  /\ lastOp.name = "redo"
  /\ steps = 2
  /\ Len(store.past) = HISTORY_LIMIT
  /\ store.future = <<>>
  /\ store = FullHistoryStore

\* ------------------------------------------------------------------------
\* C33

\* C33 (Stock is never created by grid commands): when two grid commands in a row were
\* issued on a state whose current week was empty, the first of them committing, no
\* ingredient of that state has a count above its count there by more than 0.01.
C33_NoStockCreated ==
  [][(steps = 1
        /\ Len(store.past) = 1
        /\ {lastOp.name, lastOp'.name} \subseteq
             {"dropIngredientToCell", "dropMealToCell", "moveOrSwapCell", "duplicateCell",
              "makeLeftovers", "setCellServings", "clearCell", "removeIngredientRefFromCell",
              "removeCellToInventory", "clearCurrentWeekAndRestoreInventory"}
        /\ store.past[1].currentWeekStartDate \in DOMAIN store.past[1].weekPlans
        /\ store.past[1].weekPlans[store.past[1].currentWeekStartDate]
             = createEmptyWeekPlan(store.past[1].currentWeekStartDate))
       => \A i \in 1..Len(store.past[1].ingredients) :
            \A j \in 1..Len(store'.ingredients) :
              store'.ingredients[j].id = store.past[1].ingredients[i].id
                => store'.ingredients[j].count <= store.past[1].ingredients[i].count + 1]_vars

\* ------------------------------------------------------------------------
\* C34

\* C34 (clearCurrentWeekAndRestoreInventory is removeToInventory on every slot): wherever
\* a further command can be issued, clearing the current week leaves every cell of it
\* null and the other weeks' plans as they were, and leaves the ledger that
\* removeToInventory gives when it is called on every populated slot of the current week,
\* family and profile slots alike, one after the other.
C34_ClearWeekIsRemoveAll ==
  steps < MaxSteps
    => LET plan == currentPlan(store)
           populated ==
             {address \in
                {Address(mt, d, "family", UNDEF) : mt \in MEAL_TYPES, d \in Days}
                  \cup {Address(mt, d, "profile", profile) :
                          mt \in MEAL_TYPES, d \in Days, profile \in {"p1", "p2", "p3"}} :
                getSlot(plan, address) # NULL}
           RECURSIVE removeAll(_, _)
           removeAll(s, addresses) ==
             IF addresses = {} THEN s
             ELSE LET address == CHOOSE a \in addresses : TRUE
                  IN removeAll(removeCellToInventory(s, address), addresses \ {address})
           removed == removeAll(store, populated)
           cleared == clearCurrentWeekAndRestoreInventory(store)
       IN /\ cleared.weekPlans[store.currentWeekStartDate]
               = createEmptyWeekPlan(store.currentWeekStartDate)
          /\ \A week \in DOMAIN store.weekPlans \ {store.currentWeekStartDate} :
               cleared.weekPlans[week] = store.weekPlans[week]
          /\ cleared.ingredients = removed.ingredients

\* ------------------------------------------------------------------------
\* C35

\* C35 (Slot commands are local): a step of dropIngredient, dropMeal, clear,
\* removeToInventory, removeIngredientRef, setServings, moveOrSwap, duplicate or
\* makeLeftovers leaves every slot of the current week other than the addressed ones
\* (the address; for moveOrSwap and duplicate source and target; for makeLeftovers the
\* source and the lunch of the next day) as it was, the other slots of the addressed
\* cells included, and leaves the plan of every other week as it was.
C35_SlotCommandsLocal ==
  [][lastOp'.name \in {"dropIngredientToCell", "dropMealToCell", "clearCell",
                       "removeCellToInventory", "removeIngredientRefFromCell",
                       "setCellServings", "moveOrSwapCell", "duplicateCell", "makeLeftovers"}
       => LET keyOf(address) ==
                <<address.mealType, address.day,
                  IF address.targetType = "family" THEN "family" ELSE address.profileId>>
              source == lastOp'.args[1]
              addressed ==
                {keyOf(source)}
                  \cup (IF lastOp'.name \in {"moveOrSwapCell", "duplicateCell"}
                          THEN {keyOf(lastOp'.args[2])}
                        ELSE IF lastOp'.name = "makeLeftovers" /\ source.day < 6
                          THEN {keyOf([source EXCEPT !.mealType = "lunch", !.day = @ + 1])}
                        ELSE {})
              before == currentPlan(store)
              after == currentPlan(store')
              keysOf(cell) == IF cell = NULL THEN {} ELSE DOMAIN cell.profiles
              slotIn(cell, key) ==
                IF cell = NULL THEN NULL
                ELSE IF key = "family" THEN cell.family
                ELSE IF key \in DOMAIN cell.profiles THEN cell.profiles[key]
                ELSE NULL
          IN /\ store'.currentWeekStartDate = store.currentWeekStartDate
             /\ \A week \in DOMAIN store.weekPlans \ {store.currentWeekStartDate} :
                  /\ week \in DOMAIN store'.weekPlans
                  /\ store'.weekPlans[week] = store.weekPlans[week]
             /\ DOMAIN store'.weekPlans \subseteq DOMAIN store.weekPlans \cup {store.currentWeekStartDate}
             /\ \A mt \in MEAL_TYPES : \A d \in Days :
                  \A key \in {"family"} \cup keysOf(before.grid[mt][d]) \cup keysOf(after.grid[mt][d]) :
                    <<mt, d, key>> \notin addressed
                      => slotIn(after.grid[mt][d], key) = slotIn(before.grid[mt][d], key)]_vars

\* The family dinner of day 0 was cleared while p1 had a dinner of their own that day:
\* the cell is still there, without a family slot and with p1's slot as it was.
C35_Witness ==
  /\ lastOp.name = "clearCell"
  /\ steps = 1
  /\ Len(store.past) = 1
  /\ Today \in DOMAIN store.weekPlans
  /\ Today \in DOMAIN store.past[1].weekPlans
  /\ store.past[1].weekPlans[Today].grid["dinner"][0] # NULL
  /\ store.past[1].weekPlans[Today].grid["dinner"][0].family # NULL
  /\ "p1" \in DOMAIN store.past[1].weekPlans[Today].grid["dinner"][0].profiles
  /\ store.past[1].weekPlans[Today].grid["dinner"][0].profiles["p1"] # NULL
  /\ store.weekPlans[Today].grid["dinner"][0] # NULL
  /\ store.weekPlans[Today].grid["dinner"][0].family = NULL
  /\ store.weekPlans[Today].grid["dinner"][0].profiles["p1"]
       = store.past[1].weekPlans[Today].grid["dinner"][0].profiles["p1"]

\* ------------------------------------------------------------------------
\* C36

\* C36 (Ledger identity invariant): no two ingredients of the ledger have the same
\* normalized name, in every reachable state and, wherever a further command can be
\* issued, after updateIngredient has renamed any ingredient to "Rice".
C36_LedgerIdentity ==
  LET distinctNames(ingredients) ==
        \A i \in 1..Len(ingredients) : \A j \in 1..Len(ingredients) :
          i < j => normalizeName(ingredients[i].name) # normalizeName(ingredients[j].name)
  IN /\ distinctNames(store.ingredients)
     /\ steps < MaxSteps
          => \A i \in 1..Len(store.ingredients) :
               distinctNames(
                 updateIngredient(store, store.ingredients[i].id, [name |-> "Rice"]).ingredients)

\* ------------------------------------------------------------------------
\* C37

\* C37 (Template round trip): after saveSlotAsMeal has stored a populated slot as a meal,
\* dropping that meal into an empty slot of the current week gives a slot with the
\* servings of the saved slot and refs of the same names and quantities, in the same
\* order.
C37_TemplateRoundTrip ==
  (lastOp.name = "saveCellAsMeal"
     /\ Len(store.past) > 0
     /\ Len(store.meals) = Len(store.past[Len(store.past)].meals) + 1
     /\ slotAt(store, lastOp.args[1]) # NULL)
    => LET slot == slotAt(store, lastOp.args[1])
           lines(refs) == [i \in 1..Len(refs) |-> <<refs[i].name, refs[i].qty>>]
       IN \A target \in {AddrB, AddrC} :
            slotAt(store, target) = NULL
              => LET dropped == slotAt(dropMealToCell(store, target, store.meals[1].id), target)
                 IN /\ dropped # NULL
                    /\ dropped.servings = slot.servings
                    /\ lines(dropped.ingredientRefs) = lines(slot.ingredientRefs)

\* ------------------------------------------------------------------------
\* C38

C39_DeleteProfile ==
  [][(lastOp'.name = "deleteProfile" /\ Len(store.profiles) >= 2)
       => LET id == lastOp'.args[1]
              keysOf(cell) == IF cell = NULL THEN {} ELSE DOMAIN cell.profiles
              slotIn(cell, key) ==
                IF cell = NULL THEN NULL
                ELSE IF key = "family" THEN cell.family
                ELSE IF key \in DOMAIN cell.profiles THEN cell.profiles[key]
                ELSE NULL
          IN /\ store'.profiles = SelectSeq(store.profiles, LAMBDA profile : profile.id # id)
             /\ DOMAIN store'.weekPlans = DOMAIN store.weekPlans
             /\ \A week \in DOMAIN store.weekPlans : \A mt \in MEAL_TYPES : \A d \in Days :
                  LET before == store.weekPlans[week].grid[mt][d]
                      after == store'.weekPlans[week].grid[mt][d]
                  IN /\ id \notin keysOf(after)
                     /\ \A key \in ({"family"} \cup keysOf(before) \cup keysOf(after)) \ {id} :
                          slotIn(after, key) = slotIn(before, key)
                     /\ after = NULL
                          <=> \A key \in ({"family"} \cup keysOf(before)) \ {id} :
                                slotIn(before, key) = NULL
             /\ store'.ingredients = store.ingredients
             /\ undo(store').profiles = store.profiles
             /\ undo(store').weekPlans = store.weekPlans
             /\ undo(store').ingredients = store.ingredients]_vars

\* The view was moved to the next week and p1 was deleted: in the planned week, which is
\* not displayed, the dinner of day 0 has lost p1's slot and kept the family slot, and
\* p2 is the only profile.
C39_Witness ==
  /\ lastOp = Op("deleteProfile", <<"p1">>)
  /\ steps = 2
  /\ Len(store.past) = 1
  /\ Len(store.profiles) = 1
  /\ store.profiles[1].id = "p2"
  /\ store.currentWeekStartDate = Today + 1
  /\ Today \in DOMAIN store.weekPlans
  /\ Today \in DOMAIN store.past[1].weekPlans
  /\ store.past[1].weekPlans[Today].grid["dinner"][0] # NULL
  /\ "p1" \in DOMAIN store.past[1].weekPlans[Today].grid["dinner"][0].profiles
  /\ store.past[1].weekPlans[Today].grid["dinner"][0].profiles["p1"] # NULL
  /\ store.weekPlans[Today].grid["dinner"][0] # NULL
  /\ "p1" \notin DOMAIN store.weekPlans[Today].grid["dinner"][0].profiles
  /\ store.weekPlans[Today].grid["dinner"][0].family
       = store.past[1].weekPlans[Today].grid["dinner"][0].family
  /\ store.weekPlans[Today].grid["dinner"][0].family # NULL

\* ------------------------------------------------------------------------
\* C40

\* C40 (Pinned-meal consistency invariant): a step of addMeal, updateMeal, deleteMeal,
\* toggleMealPinned, movePinnedMeal, saveSlotAsMeal, undo or redo taken in a state where
\* pinnedMealIds has no id twice, holds ids of existing meals only and holds the id of a
\* meal exactly when the meal's pinned flag is true, leads to such a state again; and a
\* step of movePinnedMeal leaves pinnedMealIds with the same ids, as many as before.
C40_PinnedConsistency ==
  [][LET consistent(s) ==
           LET pinnedIds == {s.pinnedMealIds[i] : i \in 1..Len(s.pinnedMealIds)}
           IN /\ \A i \in 1..Len(s.pinnedMealIds) : \A j \in 1..Len(s.pinnedMealIds) :
                   i < j => s.pinnedMealIds[i] # s.pinnedMealIds[j]
              /\ \A id \in pinnedIds : \E i \in 1..Len(s.meals) : s.meals[i].id = id
              /\ \A i \in 1..Len(s.meals) :
                   s.meals[i].pinned = BoolT <=> s.meals[i].id \in pinnedIds
     IN /\ (lastOp'.name \in {"addMeal", "updateMeal", "deleteMeal", "toggleMealPinned",
                              "movePinnedMeal", "saveCellAsMeal"}
              /\ consistent(store))
             => consistent(store')
        /\ (/\ lastOp'.name \in {"undo", "redo"}
            /\ consistent(store)
            /\ \A n \in 1..Len(store.past) : consistent(store.past[n])
            /\ \A n \in 1..Len(store.future) : consistent(store.future[n]))
             => consistent(store')
        /\ lastOp'.name = "movePinnedMeal"
             => /\ Len(store'.pinnedMealIds) = Len(store.pinnedMealIds)
                /\ {store'.pinnedMealIds[i] : i \in 1..Len(store'.pinnedMealIds)}
                     = {store.pinnedMealIds[i] : i \in 1..Len(store.pinnedMealIds)}]_vars

====
